---- MODULE Spec2Model ----
(***************************************************************************)
(* Reliable transfer over datagrams: UDPClient (sender), UDPServer         *)
(* (receiver), the CongestionController and the datagram channel between    *)
(* the two endpoints.                                                       *)
(*                                                                          *)
(* Abstractions, stated once:                                               *)
(*  - a payload is an opaque unit: chunk i of the input stream S is the     *)
(*    value i+1, so a stream is a sequence of chunk values and two streams  *)
(*    are equal byte-for-byte exactly when the sequences are equal;         *)
(*  - wall-clock time is not a variable: a timer that the code compares     *)
(*    with time.time() may expire whenever its record exists, and an RTT    *)
(*    sample is drawn from RTTSamples;                                      *)
(*  - Python floats are exact rationals [n, d] in lowest terms;             *)
(*  - of the client's event log the model keeps the kind of the last entry *)
(*    and the number of 'syn_sent' entries; the server's log, callbacks,    *)
(*    timestamps and the packets_dropped / bytes_sent / packets_received /  *)
(*    acks_sent counters are not state of the model;                        *)
(*  - the channel is a set of datagrams in each direction: it reorders, and *)
(*    loses, duplicates or damages as the specification at hand allows;     *)
(*    the specifications with fairness let a timeout expire only when no    *)
(*    datagram is on its way and run with congestion control switched off;  *)
(*  - the checksum of a packet is the tuple of the fields it is computed    *)
(*    over: two packets have equal checksums exactly when those fields are  *)
(*    equal, so the collisions of the 16 bits the code keeps of CRC-32 are  *)
(*    left out; a datagram damaged in transit carries another payload under *)
(*    the checksum of the original; the specification of to_bytes and       *)
(*    from_bytes alone works on bytes and computes the CRC itself;          *)
(*  - a block under send_lock is one step, except in the specification     *)
(*    that runs _handle_ack one statement group at a time.                  *)
(***************************************************************************)
EXTENDS Integers, Sequences, FiniteSets, TLC

(* ------------------------------ bounds -------------------------------- *)
\* largest number of chunks of the input stream
MaxChunks == 3
\* largest configured window_size
MaxWindow == 2
\* retransmissions after which the timer flow issues no further batch
MaxRetx == 1
\* socket timeouts the stop-and-wait loop may take in one run
MaxTimeouts == 2
\* DATA datagrams the stop-and-wait loop may send in one run
MaxSent == 4
\* datagram copies the channel may add in one run
MaxDup == 1
\* DATA datagrams the channel may damage in one run
MaxCorrupt == 1
\* largest number of chunks of a transfer over the damaging channel
MaxChunksQuiet == 2
\* retransmissions after which the lossy channel of a fair run loses no more
MaxLossRounds == 2
\* DATA datagrams that reach a server no SYN has reached yet
MaxStray == 2
\* payload bytes of an encoded packet
MaxPayload == 2
\* send_data calls made on one client
MaxTransfers == 2
\* entries the receiver's store is short of max_buffer_size when a long
\* transfer is taken up
MaxRoom == 1
\* calls made on a stand-alone CongestionController
MaxCalls == 5
\* on_ack_received is not called on a stand-alone controller once the
\* denominator of cwnd exceeds this (the next one would be its square)
MaxDen == 1000

(* ------------------------- program constants -------------------------- *)
FLAG_SYN == 1
FLAG_ACK == 2
FLAG_FIN == 4
FLAG_DATA == 8
\* struct.calcsize('!IIBHH')
HEADER_SIZE == 13
\* ReceiverBuffer.max_buffer_size
max_buffer_size == 1024
\* max_retries of the stop-and-wait loop
max_retries == 10

(* --------------------- exact arithmetic for floats -------------------- *)
RECURSIVE GCD(_, _)
GCD(a, b) == IF b = 0 THEN a ELSE GCD(b, a % b)

Abs(x) == IF x < 0 THEN -x ELSE x

LCM(a, b) == (a \div GCD(a, b)) * b

\* the rational n/d (d > 0) in lowest terms
Rat(n, d) == LET g == GCD(Abs(n), d) IN [n |-> n \div g, d |-> d \div g]

RInt(k) == [n |-> k, d |-> 1]

RAdd(x, y) == LET l == LCM(x.d, y.d)
              IN  Rat(x.n * (l \div x.d) + y.n * (l \div y.d), l)

RSub(x, y) == LET l == LCM(x.d, y.d)
              IN  Rat(x.n * (l \div x.d) - y.n * (l \div y.d), l)

\* k * x for an integer k
RScale(k, x) == Rat(k * x.n, x.d)

\* x / k for an integer k > 0
RDivInt(x, k) == Rat(x.n, x.d * k)

\* 1 / x for x > 0
RInv(x) == Rat(x.d, x.n)

RAbs(x) == [n |-> Abs(x.n), d |-> x.d]

RLess(x, y) == LET l == LCM(x.d, y.d)
               IN  x.n * (l \div x.d) < y.n * (l \div y.d)

RLeq(x, y) == ~RLess(y, x)

RMin(x, y) == IF RLess(y, x) THEN y ELSE x

RMax(x, y) == IF RLess(x, y) THEN y ELSE x

\* int(x) for x >= 0
RFloor(x) == x.n \div x.d

(* ------------------------ CongestionController ------------------------ *)
min_cwnd == RInt(1)
max_cwnd == RInt(1024)
RTO_MIN == Rat(1, 5)
RTO_MAX == RInt(60)

\* the fields of a CongestionController after construction
CongestionInit(en) ==
    [cwnd |-> RInt(1), ssthresh |-> RInt(64), enabled |-> en,
     srtt |-> RInt(0), rttvar |-> RInt(0), rto |-> RInt(1),
     packets_in_flight |-> 0]

\* property state
CCState(c) == IF RLess(c.cwnd, c.ssthresh) THEN "slow_start"
              ELSE "congestion_avoidance"

\* property effective_window
EffectiveWindow(c) ==
    IF ~c.enabled THEN RFloor(max_cwnd)
    ELSE IF RFloor(c.cwnd) > 1 THEN RFloor(c.cwnd) ELSE 1

\* _update_rtt, without the final clamp (a plausible slip)
UpdateRttNoClamp(c, sample) ==
    LET first  == c.srtt = RInt(0)
        rttvar == IF first THEN RDivInt(sample, 2)
                  ELSE RAdd(RDivInt(RScale(3, c.rttvar), 4),
                            RDivInt(RAbs(RSub(c.srtt, sample)), 4))
        srtt   == IF first THEN sample
                  ELSE RAdd(RDivInt(RScale(7, c.srtt), 8), RDivInt(sample, 8))
    IN  [c EXCEPT !.srtt = srtt, !.rttvar = rttvar,
                  !.rto = RAdd(srtt, RScale(4, rttvar))]

\* _update_rtt
UpdateRtt(c, sample) ==
    LET first  == c.srtt = RInt(0)
        rttvar == IF first THEN RDivInt(sample, 2)
                  ELSE RAdd(RDivInt(RScale(3, c.rttvar), 4),
                            RDivInt(RAbs(RSub(c.srtt, sample)), 4))
        srtt   == IF first THEN sample
                  ELSE RAdd(RDivInt(RScale(7, c.srtt), 8), RDivInt(sample, 8))
    IN  [c EXCEPT !.srtt = srtt, !.rttvar = rttvar,
                  !.rto = RMax(RTO_MIN, RMin(RAdd(srtt, RScale(4, rttvar)), RTO_MAX))]

NoSample == [n |-> -1, d |-> 1]

\* on_ack_received with the congestion-avoidance branch doubling cwnd
OnAckReceivedDoubling(c, sample) ==
    IF ~c.enabled THEN c
    ELSE LET c1 == IF sample = NoSample THEN c ELSE UpdateRtt(c, sample)
             w  == IF CCState(c1) = "slow_start"
                   THEN RMin(RAdd(c1.cwnd, RInt(1)), max_cwnd)
                   ELSE RMin(RScale(2, c1.cwnd), max_cwnd)
         IN  [c1 EXCEPT !.cwnd = w,
                        !.packets_in_flight =
                            IF c1.packets_in_flight > 0
                            THEN c1.packets_in_flight - 1 ELSE 0]

\* on_ack_received(rtt_sample); sample = NoSample stands for None
OnAckReceived(c, sample) ==
    IF ~c.enabled THEN c
    ELSE LET c1 == IF sample = NoSample THEN c ELSE UpdateRtt(c, sample)
             w  == IF CCState(c1) = "slow_start"
                   THEN RMin(RAdd(c1.cwnd, RInt(1)), max_cwnd)
                   ELSE RMin(RAdd(c1.cwnd, RInv(c1.cwnd)), max_cwnd)
         IN  [c1 EXCEPT !.cwnd = w,
                        !.packets_in_flight =
                            IF c1.packets_in_flight > 0
                            THEN c1.packets_in_flight - 1 ELSE 0]

\* on_timeout that halves cwnd instead of falling back to min_cwnd
OnTimeoutHalving(c) ==
    IF ~c.enabled THEN c
    ELSE [c EXCEPT !.ssthresh = RMax(RDivInt(c.cwnd, 2), RInt(2)),
                   !.cwnd = RDivInt(c.cwnd, 2)]

\* on_timeout that lowers cwnd first and takes ssthresh from the new cwnd
OnTimeoutFromNewCwnd(c) ==
    IF ~c.enabled THEN c
    ELSE [c EXCEPT !.cwnd = min_cwnd,
                   !.ssthresh = RMax(RDivInt(min_cwnd, 2), RInt(2))]

\* on_timeout
OnTimeout(c) ==
    IF ~c.enabled THEN c
    ELSE [c EXCEPT !.ssthresh = RMax(RDivInt(c.cwnd, 2), RInt(2)),
                   !.cwnd = min_cwnd]

\* on_triple_duplicate_ack
OnTripleDuplicateAck(c) ==
    IF ~c.enabled THEN c
    ELSE LET s == RMax(RDivInt(c.cwnd, 2), RInt(2))
         IN  [c EXCEPT !.ssthresh = s, !.cwnd = RAdd(s, RInt(3))]

\* on_packet_sent
OnPacketSent(c) == [c EXCEPT !.packets_in_flight = @ + 1]

\* reset
CongestionReset(c) ==
    [c EXCEPT !.cwnd = min_cwnd, !.ssthresh = RInt(64), !.srtt = RInt(0),
              !.rttvar = RInt(0), !.rto = RInt(1), !.packets_in_flight = 0]

\* RTT samples, in seconds: zero, below the RTO floor, ordinary, above the cap
RTTSamples == {RInt(0), Rat(1, 10), RInt(1), RInt(100)}


(* ------------------------------ packets ------------------------------- *)
\* Packet.calculate_checksum: over seq_no, ack_no, flags, window and data
calculate_checksum(p) == <<p.seq_no, p.ack_no, p.flags, p.window, p.data>>

\* a Packet as to_bytes serializes it, the checksum filled in
Packet(seq, ack, fl, win, payload) ==
    LET fields == [seq_no |-> seq, ack_no |-> ack, flags |-> fl, window |-> win,
                   data |-> payload]
    IN  [seq_no |-> seq, ack_no |-> ack, flags |-> fl, window |-> win,
         data |-> payload, checksum |-> calculate_checksum(fields)]

\* verify_checksum accepting every packet
verify_checksum_lenient(p) == TRUE

\* Packet.verify_checksum
verify_checksum(p) == p.checksum = calculate_checksum(p)

is_syn(p)  == (p.flags \div FLAG_SYN) % 2 = 1
is_ack(p)  == (p.flags \div FLAG_ACK) % 2 = 1
is_fin(p)  == (p.flags \div FLAG_FIN) % 2 = 1
is_data(p) == (p.flags \div FLAG_DATA) % 2 = 1

\* the empty payload b''
NoData == 0

create_syn_packet(seq, win)          == Packet(seq, 0, FLAG_SYN, win, NoData)
create_syn_ack_packet(seq, ack, win) == Packet(seq, ack, FLAG_SYN + FLAG_ACK, win, NoData)
create_ack_packet(seq, ack, win)     == Packet(seq, ack, FLAG_ACK, win, NoData)
create_data_packet(seq, payload, win) == Packet(seq, 0, FLAG_DATA, win, payload)
create_fin_packet(seq)               == Packet(seq, 0, FLAG_FIN, 0, NoData)
create_fin_ack_packet(seq, ack)      == Packet(seq, ack, FLAG_FIN + FLAG_ACK, 0, NoData)

(* ------------------------------- state -------------------------------- *)
VARIABLES
    \* configuration shared by the two endpoints
    protocol_mode, window_size, total_chunks,
    \* UDPClient
    state, base, next_seq, sent_packets, acked_packets, congestion, running, stats,
    event_log,
    \* position of the client's transmitter flow, the stop-and-wait loop's
    \* locals i and retries, and the position of its ACK-receiver thread
    pc, sw_i, sw_retries, rx_pc,
    \* UDPServer: buffer.expected_seq, buffer.received_data, flags, statistics,
    \* and the streams written on FIN, oldest first
    expected_seq, received_data, transfer_complete, current_client, srv_stats, sink,
    \* datagrams in flight in each direction, and copies added so far
    c2s, s2c, dups,
    \* a stand-alone CongestionController: the last call made and their number
    cc_op, cc_calls,
    \* the locals of a _handle_ack call in progress and its position, for the
    \* specification that runs the handler statement by statement
    ack_local,
    \* a Packet object p, the bytes handed to Packet.from_bytes, what it
    \* returned (<<>> for None, <<q>> for a packet q) and the calls made so far
    packet, datagram, decoded, codec_pc,
    \* a GBNSender of reliability/go_back_n.py with the thread position of
    \* its send loop, the receiver it sends to and the datagrams between them
    gbn

config  == <<protocol_mode, window_size, total_chunks>>
window  == <<base, next_seq, sent_packets, acked_packets>>
flows   == <<pc, sw_i, sw_retries, rx_pc>>
server  == <<expected_seq, received_data, transfer_complete, current_client, srv_stats, sink>>
ccalone == <<cc_op, cc_calls>>
codec   == <<packet, datagram, decoded, codec_pc>>
vars    == <<config, state, window, congestion, running, stats, event_log, flows,
             server, c2s, s2c, dups, ccalone, ack_local, codec, gbn>>

Modes == {"stop_wait", "go_back_n", "selective_repeat"}

EmptyMap == [s \in {} |-> 0]

\* data_chunks[i], the payload of sequence number i
data_chunks(i) == i + 1

\* the input stream S, chunk by chunk
InputStream == [i \in 1..total_chunks |-> data_chunks(i - 1)]

\* ClientStats()
ClientStatsInit ==
    [packets_sent |-> 0, acks_received |-> 0, retransmissions |-> 0, timeouts |-> 0]

\* TransferStats()
TransferStatsInit ==
    [out_of_order |-> 0, duplicate_packets |-> 0, bytes_received |-> 0,
     checksum_errors |-> 0]

\* event_log = []: no last entry, no 'syn_sent' entry
EventLogInit == [last |-> "none", syn_sent |-> 0]

\* _log_event(kind, ...) for each kind of `kinds`, in order
LogEvents(log, kinds) ==
    IF kinds = <<>> THEN log
    ELSE [last |-> kinds[Len(kinds)],
          syn_sent |-> log.syn_sent
                         + Cardinality({i \in 1..Len(kinds) : kinds[i] = "syn_sent"})]

\* len(packet.data), in payload units
PayloadLen(d) == IF d = NoData THEN 0 ELSE 1

\* no _handle_ack call is in progress
NoAck == [at |-> "idle", ack_no |-> 0, seq |-> 0, rtts |-> <<>>, taken |-> 0, entry |-> 0]

\* Packet(0, 0, 0, 0): the defaults of the dataclass for data and checksum
EmptyPacket == [seq_no |-> 0, ack_no |-> 0, flags |-> 0, window |-> 0, data |-> <<>>,
                checksum |-> 0]

\* GBNStats()
GBNStatsInit ==
    [packets_sent |-> 0, acks_received |-> 0, window_advances |-> 0, timeouts |-> 0,
     retransmissions |-> 0]

\* GBNSender.__init__ and GBNReceiver.__init__: the window empty, no timer
\* (timer_start = None), send_data not called (at = "new"), nothing on the
\* wire. sent_packets is the set of keys of the dict
GBNConstructed ==
    [base |-> 0, next_seq |-> 0, sent_packets |-> {}, timer_start |-> "None",
     running |-> FALSE, stats |-> GBNStatsInit, at |-> "new",
     expected_seq |-> 0, data |-> {}, acks |-> {}]

\* no packet is being encoded or decoded
CodecIdle ==
    /\ packet = EmptyPacket
    /\ datagram = <<>>
    /\ decoded = <<>>
    /\ codec_pc = "idle"

\* the endpoints as constructed, around a congestion controller c
EndpointsConstructed(c) ==
    /\ state = "idle"
    /\ base = 0
    /\ next_seq = 0
    /\ sent_packets = EmptyMap
    /\ acked_packets = {}
    /\ congestion = c
    /\ running = FALSE
    /\ stats = ClientStatsInit
    /\ event_log = EventLogInit
    /\ pc = "idle"
    /\ sw_i = 0
    /\ sw_retries = 0
    /\ rx_pc = "off"
    /\ expected_seq = 0
    /\ received_data = EmptyMap
    /\ transfer_complete = FALSE
    /\ current_client = "none"
    /\ srv_stats = TransferStatsInit
    /\ sink = <<>>
    /\ c2s = {}
    /\ s2c = {}
    /\ dups = 0
    /\ cc_op = "none"
    /\ cc_calls = 0
    /\ ack_local = NoAck
    /\ gbn = GBNConstructed

Constructed(c) == EndpointsConstructed(c) /\ CodecIdle

Init ==
    /\ protocol_mode \in Modes
    /\ window_size \in 1..MaxWindow
    /\ protocol_mode = "stop_wait" => window_size = 1
    /\ total_chunks \in 0..MaxChunks
    /\ \E en \in BOOLEAN : Constructed(CongestionInit(en))

(* ------------------------------ channel ------------------------------- *)
\* a datagram is taken off the wire, or a copy of it stays behind
Taken(ch, p, keep) == IF keep THEN ch ELSE ch \ {p}

MayKeep(keep) == keep => dups < MaxDup

Kept(keep) == IF keep THEN dups + 1 ELSE dups

\* the network loses a datagram on its way to the client
LoseS2C(p) ==
    /\ p \in s2c
    /\ s2c' = s2c \ {p}
    /\ UNCHANGED <<event_log, config, state, window, congestion, running, stats, flows,
                   server, c2s, dups, ccalone, ack_local, codec, gbn>>


(* ----------------------------- UDPClient ------------------------------ *)
\* RTT samples measured in a transfer (time.time() - send_time)
TransferRTT == {Rat(1, 10)}

\* send_data up to connect()'s SYN: the state is not CONNECTED, so connect()
\* runs, enters CONNECTING and sends one SYN
Connect ==
    /\ pc = "idle"
    /\ state' = "connecting"
    /\ c2s' = c2s \cup {create_syn_packet(0, window_size)}
    /\ pc' = "syn_wait"
    /\ event_log' = LogEvents(event_log, <<"syn_sent">>)
    /\ UNCHANGED <<config, window, congestion, running, stats, sw_i, sw_retries,
                   rx_pc, server, s2c, dups, ccalone, ack_local, codec, gbn>>

\* connect(): recvfrom returns a datagram. A SYN+ACK is answered with an ACK
\* and the state becomes CONNECTED; anything else makes connect() return
\* False with the state left as it is
ConnectRecv(p, keep) ==
    /\ pc = "syn_wait"
    /\ p \in s2c
    /\ MayKeep(keep)
    /\ s2c' = Taken(s2c, p, keep)
    /\ dups' = Kept(keep)
    /\ IF is_syn(p) /\ is_ack(p)
       THEN /\ c2s' = c2s \cup {create_ack_packet(0, p.seq_no + 1, window_size)}
            /\ state' = "connected"
            /\ pc' = "connected"
            /\ event_log' = LogEvents(event_log, <<"syn_ack_received">>)
       ELSE /\ pc' = "failed"
            /\ UNCHANGED <<c2s, state, event_log>>
    /\ UNCHANGED <<config, window, congestion, running, stats, sw_i, sw_retries,
                   rx_pc, server, ccalone, ack_local, codec, gbn>>

\* connect(): socket.timeout
ConnectTimeout ==
    /\ pc = "syn_wait"
    /\ state' = "error"
    /\ pc' = "failed"
    /\ event_log' = LogEvents(event_log, <<"timeout">>)
    /\ UNCHANGED <<config, window, congestion, running, stats, sw_i, sw_retries,
                   rx_pc, server, c2s, s2c, dups, ccalone, ack_local, codec, gbn>>

\* send_data after connect() returned True: reset, TRANSFERRING, start the
\* receiver and timer threads, enter the mode's send loop
StartTransfer ==
    /\ pc = "connected"
    /\ base' = 0
    /\ next_seq' = 0
    /\ sent_packets' = EmptyMap
    /\ acked_packets' = {}
    /\ stats' = ClientStatsInit
    /\ congestion' = CongestionReset(congestion)
    /\ state' = "transferring"
    /\ running' = TRUE
    /\ rx_pc' = "recv"
    /\ sw_i' = 0
    /\ sw_retries' = 0
    /\ pc' = IF protocol_mode = "stop_wait" THEN "sw_send" ELSE "win_send"
    /\ UNCHANGED <<event_log, config, server, c2s, s2c, dups, ccalone, ack_local, codec, gbn>>

\* send_file after connect() returned True: the file cannot be read; the
\* error is logged and send_file returns False
SendFileReadError ==
    /\ pc = "connected"
    /\ event_log' = LogEvents(event_log, <<"error">>)
    /\ pc' = "failed"
    /\ UNCHANGED <<config, state, window, congestion, running, stats, sw_i,
                   sw_retries, rx_pc, server, c2s, s2c, dups, ccalone, ack_local, codec, gbn>>

\* _finish_transfer up to its recvfrom: CLOSING, FIN sent with seq next_seq
FinishTransfer ==
    /\ state' = "closing"
    /\ c2s' = c2s \cup {create_fin_packet(next_seq)}
    /\ pc' = "fin_wait"
    /\ event_log' = LogEvents(event_log, <<"fin_sent">>)

\* _finish_transfer: recvfrom returns any datagram, FIN+ACK or not
FinRecv(p, keep) ==
    /\ pc = "fin_wait"
    /\ p \in s2c
    /\ MayKeep(keep)
    /\ s2c' = Taken(s2c, p, keep)
    /\ dups' = Kept(keep)
    /\ state' = "completed"
    /\ pc' = "done"
    /\ event_log' = LogEvents(event_log,
                                IF is_fin(p) /\ is_ack(p)
                                THEN <<"fin_ack_received", "transfer_complete">>
                                ELSE <<"transfer_complete">>)
    /\ UNCHANGED <<config, window, congestion, running, stats, sw_i, sw_retries,
                   rx_pc, server, c2s, ccalone, ack_local, codec, gbn>>

\* _finish_transfer: socket.timeout while waiting for FIN+ACK
FinTimeout ==
    /\ pc = "fin_wait"
    /\ state' = "completed"
    /\ pc' = "done"
    /\ event_log' = LogEvents(event_log, <<"warning", "transfer_complete">>)
    /\ UNCHANGED <<config, window, congestion, running, stats, sw_i, sw_retries,
                   rx_pc, server, c2s, s2c, dups, ccalone, ack_local, codec, gbn>>

(* stop-and-wait *)
\* _send_stop_wait: one pass of the inner loop up to recvfrom. The loss
\* injector either sends the packet (counted) or drops it
SendStopWaitStep(drop) ==
    /\ pc = "sw_send"
    /\ sw_i < total_chunks
    /\ sw_retries < max_retries
    /\ IF drop
       THEN /\ event_log' = LogEvents(event_log, <<"packet_drop">>)
            /\ UNCHANGED <<c2s, stats>>
       ELSE /\ c2s' = c2s \cup {create_data_packet(sw_i, data_chunks(sw_i), 1)}
            /\ stats' = [stats EXCEPT !.packets_sent = @ + 1]
            /\ event_log' = LogEvents(event_log, <<"packet_sent">>)
    /\ pc' = "sw_wait"
    /\ UNCHANGED <<config, state, window, congestion, running, sw_i, sw_retries,
                   rx_pc, server, s2c, dups, ccalone, ack_local, codec, gbn>>

\* the same, for as long as the bound on transmissions allows
SendStopWait(drop) == stats.packets_sent < MaxSent /\ SendStopWaitStep(drop)

\* _send_stop_wait: recvfrom returns a datagram. An ACK above i ends the
\* chunk; any other datagram goes round the loop again, retries unchanged
StopWaitRecv(p, keep) ==
    /\ pc = "sw_wait"
    /\ p \in s2c
    /\ MayKeep(keep)
    /\ s2c' = Taken(s2c, p, keep)
    /\ dups' = Kept(keep)
    /\ pc' = "sw_send"
    /\ IF is_ack(p) /\ p.ack_no > sw_i
       THEN /\ stats' = [stats EXCEPT !.acks_received = @ + 1]
            /\ congestion' = OnAckReceived(congestion, NoSample)
            /\ sw_i' = sw_i + 1
            /\ sw_retries' = 0
            /\ event_log' = LogEvents(event_log, <<"ack_received">>)
       ELSE UNCHANGED <<stats, congestion, sw_i, sw_retries, event_log>>
    /\ UNCHANGED <<config, state, window, running, rx_pc, server, c2s, ccalone, ack_local, codec, gbn>>

\* _send_stop_wait: socket.timeout; after max_retries of them the transfer
\* fails with state ERROR
StopWaitTimeoutStep ==
    /\ pc = "sw_wait"
    /\ sw_retries' = sw_retries + 1
    /\ stats' = [stats EXCEPT !.retransmissions = @ + 1, !.timeouts = @ + 1]
    /\ congestion' = OnTimeout(congestion)
    /\ IF sw_retries + 1 >= max_retries
       THEN /\ state' = "error"
            /\ pc' = "failed"
            /\ event_log' = LogEvents(event_log, <<"timeout", "error">>)
       ELSE /\ pc' = "sw_send"
            /\ event_log' = LogEvents(event_log, <<"timeout">>)
            /\ UNCHANGED state
    /\ UNCHANGED <<config, window, running, sw_i, rx_pc, server, c2s, s2c, dups,
                   ccalone, ack_local, codec, gbn>>

\* the same, for as long as the bound on timeouts allows
StopWaitTimeout == stats.timeouts < MaxTimeouts /\ StopWaitTimeoutStep

\* _send_stop_wait: every chunk acknowledged, _finish_transfer
StopWaitDone ==
    /\ pc = "sw_send"
    /\ sw_i = total_chunks
    /\ FinishTransfer
    /\ UNCHANGED <<config, window, congestion, running, stats, sw_i, sw_retries,
                   rx_pc, server, s2c, dups, ccalone, ack_local, codec, gbn>>

(* sliding window: Go-Back-N and Selective Repeat *)
Min2(a, b) == IF a < b THEN a ELSE b

\* the window's width with the congestion window left out of the minimum
SendLimitNoCwnd(c) == window_size

\* effective_window as _send_sliding_window computes it under send_lock
SendLimit(c) == Min2(window_size, IF c.enabled THEN EffectiveWindow(c) ELSE window_size)

RECURSIVE SentTimes(_, _)
\* on_packet_sent applied k times
SentTimes(c, k) == IF k = 0 THEN c ELSE SentTimes(OnPacketSent(c), k - 1)

\* PacketInfo(packet, send_time); overdue stands for
\* time.time() - send_time > timeout and is false when send_time is set
PacketInfo == [retransmissions |-> 0, acked |-> FALSE, overdue |-> FALSE]

\* _send_sliding_window recording only the packets that passed the loss
\* injector
SendWindowRecordSent(dropped) ==
    LET edge   == Min2(total_chunks, base + SendLimit(congestion))
        framed == {s \in next_seq..(edge - 1) :
                     ~(protocol_mode = "selective_repeat" /\ s \in acked_packets)}
    IN  /\ pc = "win_send"
        /\ base < total_chunks
        /\ next_seq < edge
        /\ dropped \subseteq framed
        /\ c2s' = c2s \cup {create_data_packet(s, data_chunks(s), window_size) :
                              s \in framed \ dropped}
        /\ congestion' = SentTimes(congestion, Cardinality(framed \ dropped))
        /\ sent_packets' = [s \in framed \ dropped |-> PacketInfo] @@ sent_packets
        /\ stats' = [stats EXCEPT !.packets_sent = @ + Cardinality(framed)]
        /\ next_seq' = edge
        /\ event_log' = IF framed = {} THEN event_log
                         ELSE LogEvents(event_log, <<"packet_sent">>)
        /\ UNCHANGED <<config, state, base, acked_packets, running, flows, server,
                       s2c, dups, ccalone, ack_local, codec, gbn>>

\* _send_sliding_window: one pass of the block under send_lock. Sequences
\* from next_seq up to the window's edge are framed; Selective Repeat skips
\* those already in acked_packets; the loss injector drops the set `dropped`,
\* whose members are recorded and counted but not sent
SendWindow(dropped) ==
    LET edge   == Min2(total_chunks, base + SendLimit(congestion))
        framed == {s \in next_seq..(edge - 1) :
                     ~(protocol_mode = "selective_repeat" /\ s \in acked_packets)}
    IN  /\ pc = "win_send"
        /\ base < total_chunks
        /\ next_seq < edge
        /\ dropped \subseteq framed
        /\ c2s' = c2s \cup {create_data_packet(s, data_chunks(s), window_size) :
                              s \in framed \ dropped}
        /\ congestion' = SentTimes(congestion, Cardinality(framed \ dropped))
        /\ sent_packets' = [s \in framed |-> PacketInfo] @@ sent_packets
        /\ stats' = [stats EXCEPT !.packets_sent = @ + Cardinality(framed)]
        /\ next_seq' = edge
        /\ event_log' = IF framed = {} THEN event_log
                         ELSE LogEvents(event_log, <<"packet_sent">>)
        /\ UNCHANGED <<config, state, base, acked_packets, running, flows, server,
                       s2c, dups, ccalone, ack_local, codec, gbn>>

\* _send_sliding_window: base reached total_chunks; the threads are told to
\* stop and _finish_transfer runs
WindowDone ==
    /\ pc = "win_send"
    /\ base >= total_chunks
    /\ running' = FALSE
    /\ FinishTransfer
    /\ UNCHANGED <<config, window, congestion, stats, sw_i, sw_retries, rx_pc,
                   server, s2c, dups, ccalone, ack_local, codec, gbn>>


(* ACK-receiver thread *)
RECURSIVE AckedTimes(_, _)
\* on_ack_received(rtt) applied once per sample of rtts, in order
AckedTimes(c, rtts) ==
    IF rtts = <<>> THEN c ELSE AckedTimes(OnAckReceived(c, Head(rtts)), Tail(rtts))

RECURSIVE AdvanceBase(_, _)
\* while self.base in self.acked_packets: self.base += 1
AdvanceBase(b, acked) == IF b \in acked THEN AdvanceBase(b + 1, acked) ELSE b

\* the fields of the client that _handle_ack reads and writes
ClientView ==
    [base |-> base, next_seq |-> next_seq, sent_packets |-> sent_packets,
     acked_packets |-> acked_packets, congestion |-> congestion, stats |-> stats,
     event_log |-> event_log]

\* del self.sent_packets[seq] for every seq of `gone`
Forget(sp, gone) == [s \in DOMAIN sp \ gone |-> sp[s]]

\* _handle_ack in Go-Back-N mode without the test ack_no > base
HandleAckGBNNoGuard(v, p, rtts) ==
    LET covered == {s \in v.base..(p.ack_no - 1) : s \in DOMAIN v.sent_packets}
    IN  [v EXCEPT !.congestion = AckedTimes(@, SubSeq(rtts, 1, Cardinality(covered))),
                  !.sent_packets = Forget(@, covered),
                  !.base = p.ack_no,
                  !.event_log = LogEvents(@, <<"ack_received">>)]

\* _handle_ack in Go-Back-N mode, under send_lock; rtts are the samples
\* time.time() - send_time, in the order the loop takes them
HandleAckGBN(v, p, rtts) ==
    IF p.ack_no > v.base
    THEN LET covered == {s \in v.base..(p.ack_no - 1) : s \in DOMAIN v.sent_packets}
         IN  [v EXCEPT !.congestion = AckedTimes(@, SubSeq(rtts, 1, Cardinality(covered))),
                       !.sent_packets = Forget(@, covered),
                       !.base = p.ack_no,
                       !.event_log = LogEvents(@, <<"ack_received">>)]
    ELSE v

\* _handle_ack in the other modes with on_ack_received called for every
\* ACK, recorded or not
HandleAckSRAlwaysGrow(v, p, rtts) ==
    LET seq_acked == p.ack_no - 1
    IN  [v EXCEPT !.acked_packets = @ \cup {seq_acked},
                  !.congestion = OnAckReceived(@, rtts[1]),
                  !.sent_packets = Forget(@, {seq_acked}),
                  !.base = AdvanceBase(@, v.acked_packets \cup {seq_acked}),
                  !.event_log = LogEvents(@, <<"ack_received">>)]

\* _handle_ack in the other modes (the else branch), under send_lock
HandleAckSR(v, p, rtts) ==
    LET seq_acked == p.ack_no - 1
    IN  IF seq_acked \notin v.acked_packets
        THEN [v EXCEPT !.acked_packets = @ \cup {seq_acked},
                       !.congestion = IF seq_acked \in DOMAIN v.sent_packets
                                      THEN OnAckReceived(@, rtts[1]) ELSE @,
                       !.sent_packets = Forget(@, {seq_acked}),
                       !.base = AdvanceBase(@, v.acked_packets \cup {seq_acked}),
                       !.event_log = LogEvents(@, <<"ack_received">>)]
        ELSE v

\* _handle_ack: the client's fields after the call
handle_ack(v, p, rtts) ==
    LET counted == [v EXCEPT !.stats.acks_received = @ + 1]
    IN  IF protocol_mode = "go_back_n" THEN HandleAckGBN(counted, p, rtts)
        ELSE HandleAckSR(counted, p, rtts)

\* the samples one _handle_ack call may take
AckSamples == [1..(MaxChunks + 1) -> TransferRTT]

\* _handle_ack
HandleAck(p) ==
    \E rtts \in AckSamples :
        \E v \in {handle_ack(ClientView, p, rtts)} :
            /\ base' = v.base
            /\ next_seq' = v.next_seq
            /\ sent_packets' = v.sent_packets
            /\ acked_packets' = v.acked_packets
            /\ congestion' = v.congestion
            /\ stats' = v.stats
            /\ event_log' = v.event_log

\* _receive_loop: recvfrom returns a datagram; one with the ACK flag goes to
\* _handle_ack. The thread then tests self.running again
ReceiveLoop(p, keep) ==
    /\ rx_pc = "recv"
    /\ p \in s2c
    /\ MayKeep(keep)
    /\ s2c' = Taken(s2c, p, keep)
    /\ dups' = Kept(keep)
    /\ IF is_ack(p) THEN HandleAck(p) ELSE UNCHANGED <<window, congestion, stats, event_log>>
    /\ rx_pc' = IF running THEN "recv" ELSE "stopped"
    /\ UNCHANGED <<config, state, running, pc, sw_i, sw_retries, server, c2s, ccalone,
                   ack_local, codec, gbn>>

\* _receive_loop: recvfrom times out after running was cleared; the thread ends
ReceiveLoopExit ==
    /\ rx_pc = "recv"
    /\ ~running
    /\ rx_pc' = "stopped"
    /\ UNCHANGED <<event_log, config, state, window, congestion, running, stats, pc, sw_i,
                   sw_retries, server, c2s, s2c, dups, ccalone, ack_local, codec, gbn>>

(* timer thread *)
\* _retransmit_packet for every sequence of `again`: the record's and the
\* session's retransmission counters go up; the datagram is sent unless the
\* loss injector drops it
Retransmit(again, dropped) ==
    /\ sent_packets' = [s \in DOMAIN sent_packets |->
                          IF s \in again
                          THEN [sent_packets[s] EXCEPT !.retransmissions = @ + 1,
                                                       !.overdue = FALSE]
                          ELSE sent_packets[s]]
    /\ c2s' = c2s \cup {create_data_packet(s, data_chunks(s), window_size) :
                          s \in again \ dropped}

\* a Go-Back-N timeout that resends the oldest unacknowledged packet only
TimerGBNStepBaseOnly(dropped) ==
    /\ running
    /\ protocol_mode = "go_back_n"
    /\ base \in DOMAIN sent_packets
    /\ dropped \subseteq {base}
    /\ congestion' = OnTimeout(congestion)
    /\ Retransmit({base}, dropped)
    /\ event_log' = LogEvents(event_log, <<"timeout", "retransmit">>)
    /\ stats' = [stats EXCEPT !.timeouts = @ + 1, !.retransmissions = @ + 1]
    /\ UNCHANGED <<config, state, base, next_seq, acked_packets, running,
                   flows, server, s2c, dups, ccalone, ack_local, codec, gbn>>

\* _timer_loop in Go-Back-N mode: the record of base has expired;
\* _handle_timeout_gbn resends every recorded sequence of [base, next_seq)
TimerGBNStep(dropped) ==
    LET again == {s \in base..(next_seq - 1) : s \in DOMAIN sent_packets}
    IN  /\ running
        /\ protocol_mode = "go_back_n"
        /\ base \in DOMAIN sent_packets
        /\ dropped \subseteq again
        /\ congestion' = OnTimeout(congestion)
        /\ Retransmit(again, dropped)
        /\ event_log' = LogEvents(event_log, <<"timeout", "retransmit">>)
        /\ stats' = [stats EXCEPT !.timeouts = @ + 1,
                                  !.retransmissions = @ + Cardinality(again)]
        /\ UNCHANGED <<config, state, base, next_seq, acked_packets, running,
                       flows, server, s2c, dups, ccalone, ack_local, codec, gbn>>

\* the same, for as long as the bound on retransmissions allows
TimerGBN(dropped) == stats.retransmissions < MaxRetx /\ TimerGBNStep(dropped)

\* a timer thread that resends every record as soon as one has expired
TimerSRStepAll(expired, dropped) ==
    /\ running
    /\ protocol_mode # "go_back_n"
    /\ expired # {}
    /\ expired \subseteq DOMAIN sent_packets
    /\ \A s \in expired : ~sent_packets[s].acked
    /\ dropped \subseteq expired
    /\ Retransmit(DOMAIN sent_packets, dropped)
    /\ event_log' = LogEvents(event_log, <<"retransmit">>)
    /\ stats' = [stats EXCEPT !.retransmissions = @ + Cardinality(DOMAIN sent_packets)]
    /\ UNCHANGED <<config, state, base, next_seq, acked_packets, congestion,
                   running, flows, server, s2c, dups, ccalone, ack_local, codec, gbn>>

\* _timer_loop in the other modes: every record whose timer expired (the
\* set `expired`) is resent by _retransmit_packet
TimerSRStep(expired, dropped) ==
    /\ running
    /\ protocol_mode # "go_back_n"
    /\ expired # {}
    /\ expired \subseteq DOMAIN sent_packets
    /\ \A s \in expired : ~sent_packets[s].acked
    /\ dropped \subseteq expired
    /\ Retransmit(expired, dropped)
    /\ event_log' = LogEvents(event_log, <<"retransmit">>)
    /\ stats' = [stats EXCEPT !.retransmissions = @ + Cardinality(expired)]
    /\ UNCHANGED <<config, state, base, next_seq, acked_packets, congestion,
                   running, flows, server, s2c, dups, ccalone, ack_local, codec, gbn>>


\* the same, for as long as the bound on retransmissions allows
TimerSR(expired, dropped) ==
    stats.retransmissions < MaxRetx /\ TimerSRStep(expired, dropped)


(* ----------------------------- UDPServer ------------------------------ *)
SetMin(S) == CHOOSE m \in S : \A x \in S : m <= x

RECURSIVE Ordered(_, _)
\* the payloads of rd at the keys `keys`, by increasing key
Ordered(rd, keys) ==
    IF keys = {} THEN <<>>
    ELSE LET m == SetMin(keys) IN <<rd[m]>> \o Ordered(rd, keys \ {m})

\* ReceiverBuffer.get_ordered_data
get_ordered_data(rd) == Ordered(rd, DOMAIN rd)

RECURSIVE NextMissing(_, _)
\* while self.expected_seq in self.received_data: self.expected_seq += 1
NextMissing(e, keys) == IF e \in keys THEN NextMissing(e + 1, keys) ELSE e

\* rd with rd[k] = v
Store(rd, k, v) == [x \in DOMAIN rd \cup {k} |-> IF x = k THEN v ELSE rd[x]]

\* ReceiverBuffer.add_packet: (is_in_order, expected_seq) and the new buffer
add_packet(e, rd, seq, payload) ==
    IF seq < e THEN [in_order |-> FALSE, expected |-> e, data |-> rd]
    ELSE IF seq = e
    THEN LET rd1 == Store(rd, seq, payload)
         IN  [in_order |-> TRUE, expected |-> NextMissing(e, DOMAIN rd1), data |-> rd1]
    ELSE [in_order |-> FALSE, expected |-> e,
          data |-> IF Cardinality(DOMAIN rd) < max_buffer_size
                   THEN Store(rd, seq, payload) ELSE rd]

\* _send_packet: nothing is sent when addr is None
ServerSend(pkt, addr) == s2c' = IF addr = "none" THEN s2c ELSE s2c \cup {pkt}

\* _handle_syn answering with the SYN's own sequence number
HandleSynEcho(p) ==
    /\ expected_seq' = 0
    /\ received_data' = EmptyMap
    /\ srv_stats' = TransferStatsInit
    /\ current_client' = "client"
    /\ transfer_complete' = FALSE
    /\ ServerSend(create_syn_ack_packet(0, p.seq_no, window_size), "client")
    /\ UNCHANGED sink

\* _handle_syn
HandleSyn(p) ==
    /\ expected_seq' = 0
    /\ received_data' = EmptyMap
    /\ srv_stats' = TransferStatsInit
    /\ current_client' = "client"
    /\ transfer_complete' = FALSE
    /\ ServerSend(create_syn_ack_packet(0, p.seq_no + 1, window_size), "client")
    /\ UNCHANGED sink

\* the in-order handlers acknowledging the sequence that arrived instead of
\* the one expected
HandleInOrderOnlyEchoAck(p, win) ==
    /\ IF p.seq_no = expected_seq
       THEN /\ received_data' = Store(received_data, p.seq_no, p.data)
            /\ expected_seq' = expected_seq + 1
       ELSE UNCHANGED <<received_data, expected_seq>>
    /\ ServerSend(create_ack_packet(0, p.seq_no + 1, win), current_client)

\* _handle_stop_wait and _handle_go_back_n, which differ in the advertised
\* window `win` only: (is_in_order, next_expected) with the ACK sent
HandleInOrderOnly(p, win) ==
    /\ IF p.seq_no = expected_seq
       THEN /\ received_data' = Store(received_data, p.seq_no, p.data)
            /\ expected_seq' = expected_seq + 1
       ELSE UNCHANGED <<received_data, expected_seq>>
    /\ ServerSend(create_ack_packet(0, expected_seq', win), current_client)

\* _handle_selective_repeat
HandleSelectiveRepeat(p) ==
    LET r == add_packet(expected_seq, received_data, p.seq_no, p.data)
    IN  /\ received_data' = r.data
        /\ expected_seq' = r.expected
        /\ ServerSend(create_ack_packet(0, p.seq_no + 1, window_size), current_client)

\* _handle_data: the mode's handler, then the statistics
HandleData(p) ==
    /\ CASE protocol_mode = "stop_wait" -> HandleInOrderOnly(p, 1)
         [] protocol_mode = "go_back_n" -> HandleInOrderOnly(p, window_size)
         [] OTHER                       -> HandleSelectiveRepeat(p)
    /\ srv_stats' =
         IF p.seq_no = expected_seq
         THEN [srv_stats EXCEPT !.bytes_received = @ + PayloadLen(p.data)]
         ELSE IF p.seq_no < expected_seq'
              THEN [srv_stats EXCEPT !.duplicate_packets = @ + 1]
              ELSE [srv_stats EXCEPT !.out_of_order = @ + 1]
    /\ UNCHANGED <<transfer_complete, current_client, sink>>

\* _handle_fin: FIN+ACK to the sender, the buffer written to the sink
HandleFin(p) ==
    /\ transfer_complete' = TRUE
    /\ ServerSend(create_fin_ack_packet(0, p.seq_no + 1), "client")
    /\ sink' = Append(sink, get_ordered_data(received_data))
    /\ UNCHANGED <<expected_seq, received_data, current_client, srv_stats>>

\* _receive_loop and _handle_packet for a datagram that passes the loss
\* injector: a checksum that does not verify is counted and the packet
\* discarded; else SYN without ACK, else DATA, else FIN, else nothing
ServerRecv(p, keep) ==
    /\ p \in c2s
    /\ MayKeep(keep)
    /\ c2s' = Taken(c2s, p, keep)
    /\ dups' = Kept(keep)
    /\ IF ~verify_checksum(p)
       THEN /\ srv_stats' = [srv_stats EXCEPT !.checksum_errors = @ + 1]
            /\ UNCHANGED <<expected_seq, received_data, transfer_complete,
                           current_client, sink, s2c>>
       ELSE IF is_syn(p) /\ ~is_ack(p) THEN HandleSyn(p)
       ELSE IF is_data(p) THEN HandleData(p)
       ELSE IF is_fin(p) THEN HandleFin(p)
       ELSE UNCHANGED <<server, s2c>>
    /\ UNCHANGED <<event_log, config, state, window, congestion, running, stats, flows,
                   ccalone, ack_local, codec, gbn>>

\* _handle_packet: the loss injector drops the datagram (or the network
\* lost it on the way)
ServerDrop(p) ==
    /\ p \in c2s
    /\ c2s' = c2s \ {p}
    /\ UNCHANGED <<event_log, config, state, window, congestion, running, stats, flows,
                   server, s2c, dups, ccalone, ack_local, codec, gbn>>

(* --------------------------- specification ---------------------------- *)
Next ==
    \/ Connect
    \/ \E p \in s2c, keep \in BOOLEAN : ConnectRecv(p, keep)
    \/ ConnectTimeout
    \/ StartTransfer
    \/ \E drop \in BOOLEAN : SendStopWait(drop)
    \/ \E p \in s2c, keep \in BOOLEAN : StopWaitRecv(p, keep)
    \/ StopWaitTimeout
    \/ StopWaitDone
    \/ \E dropped \in SUBSET (next_seq..(total_chunks - 1)) : SendWindow(dropped)
    \/ WindowDone
    \/ \E p \in s2c, keep \in BOOLEAN : FinRecv(p, keep)
    \/ FinTimeout
    \/ \E p \in s2c, keep \in BOOLEAN : ReceiveLoop(p, keep)
    \/ ReceiveLoopExit
    \/ \E dropped \in SUBSET DOMAIN sent_packets : TimerGBN(dropped)
    \/ \E expired, dropped \in SUBSET DOMAIN sent_packets : TimerSR(expired, dropped)
    \/ \E p \in c2s, keep \in BOOLEAN : ServerRecv(p, keep)
    \/ \E p \in c2s : ServerDrop(p)
    \/ \E p \in s2c : LoseS2C(p)

Spec == Init /\ [][Next]_vars


(* ------------- a one-chunk transfer over a channel that loses ---------- *)
\* one chunk, window 1, no duplicates: the timers and the stop-and-wait loop
\* run for as long as the code lets them, up to one retransmission past
\* max_retries
InitFailure ==
    /\ Init
    /\ total_chunks = 1
    /\ window_size = 1

NextFailure ==
    \/ Connect
    \/ \E p \in s2c : ConnectRecv(p, FALSE)
    \/ ConnectTimeout
    \/ StartTransfer
    \/ SendFileReadError
    \/ \E drop \in BOOLEAN : SendStopWaitStep(drop)
    \/ \E p \in s2c : StopWaitRecv(p, FALSE)
    \/ StopWaitTimeoutStep
    \/ StopWaitDone
    \/ \E dropped \in SUBSET (next_seq..(total_chunks - 1)) : SendWindow(dropped)
    \/ WindowDone
    \/ \E p \in s2c : FinRecv(p, FALSE)
    \/ FinTimeout
    \/ \E p \in s2c : ReceiveLoop(p, FALSE)
    \/ ReceiveLoopExit
    \/ \E dropped \in SUBSET DOMAIN sent_packets :
           stats.retransmissions <= max_retries /\ TimerGBNStep(dropped)
    \/ \E expired, dropped \in SUBSET DOMAIN sent_packets :
           stats.retransmissions <= max_retries /\ TimerSRStep(expired, dropped)
    \/ \E p \in c2s : ServerRecv(p, FALSE)
    \/ \E p \in c2s : ServerDrop(p)
    \/ \E p \in s2c : LoseS2C(p)

SpecFailure == InitFailure /\ [][NextFailure]_vars


(* -------- a transfer over a channel that damages DATA datagrams -------- *)
\* the datagram's checksum does not match its contents
Damaged(p) == p.checksum # calculate_checksum(p)

\* the network alters the payload of a DATA datagram on its way to the
\* server; the checksum it carries is still the one of the payload sent
CorruptData(p) ==
    /\ p \in c2s
    /\ is_data(p)
    /\ ~Damaged(p)
    /\ srv_stats.checksum_errors + Cardinality({q \in c2s : Damaged(q)}) < MaxCorrupt
    /\ c2s' = (c2s \ {p}) \cup {[p EXCEPT !.data = -p.data]}
    /\ UNCHANGED <<event_log, config, state, window, congestion, running, stats, flows,
                   server, s2c, dups, ccalone, ack_local, codec, gbn>>

\* no datagram is on its way in either direction
Quiet == c2s = {} /\ s2c = {}

\* congestion control is switched off (congestion.enabled = False)
InitCorrupt ==
    /\ Init
    /\ total_chunks \in 1..MaxChunksQuiet
    /\ ~congestion.enabled

\* nothing is lost or duplicated, the loss injectors are off, and a timeout
\* longer than any transit expires only when the wire is quiet
NextCorrupt ==
    \/ Connect
    \/ \E p \in s2c : ConnectRecv(p, FALSE)
    \/ StartTransfer
    \/ SendStopWaitStep(FALSE)
    \/ \E p \in s2c : StopWaitRecv(p, FALSE)
    \/ Quiet /\ StopWaitTimeoutStep
    \/ StopWaitDone
    \/ SendWindow({})
    \/ WindowDone
    \/ \E p \in s2c : FinRecv(p, FALSE)
    \/ Quiet /\ FinTimeout
    \/ \E p \in s2c : ReceiveLoop(p, FALSE)
    \/ ReceiveLoopExit
    \/ Quiet /\ TimerGBNStep({})
    \/ \E expired \in SUBSET DOMAIN sent_packets : Quiet /\ TimerSRStep(expired, {})
    \/ \E p \in c2s : ServerRecv(p, FALSE)
    \/ \E p \in c2s : CorruptData(p)

\* the steps of send_file's thread
SenderFlow ==
    \/ Connect
    \/ \E p \in s2c : ConnectRecv(p, FALSE)
    \/ StartTransfer
    \/ SendStopWaitStep(FALSE)
    \/ \E p \in s2c : StopWaitRecv(p, FALSE)
    \/ Quiet /\ StopWaitTimeoutStep
    \/ StopWaitDone
    \/ SendWindow({})
    \/ WindowDone
    \/ \E p \in s2c : FinRecv(p, FALSE)
    \/ Quiet /\ FinTimeout

\* the steps of the ACK-receiver thread
ReceiverFlow ==
    \/ \E p \in s2c : ReceiveLoop(p, FALSE)
    \/ ReceiveLoopExit

\* the steps of the timer thread
TimerFlow ==
    \/ Quiet /\ TimerGBNStep({})
    \/ \E expired \in SUBSET DOMAIN sent_packets : Quiet /\ TimerSRStep(expired, {})

\* the steps of the server's receive thread
ServerFlow == \E p \in c2s : ServerRecv(p, FALSE)

\* every thread that can take a step eventually takes one
SpecCorrupt ==
    /\ InitCorrupt
    /\ [][NextCorrupt]_vars
    /\ WF_vars(SenderFlow)
    /\ WF_vars(ReceiverFlow)
    /\ WF_vars(TimerFlow)
    /\ WF_vars(ServerFlow)


(* ------ a sliding-window transfer over a fair channel that loses ------- *)
\* the channel and the loss injectors still lose datagrams
Lossy == stats.retransmissions < MaxLossRounds

\* Go-Back-N or Selective Repeat, congestion control switched off
InitLossy ==
    /\ Init
    /\ protocol_mode # "stop_wait"
    /\ total_chunks \in 0..MaxChunksQuiet
    /\ ~congestion.enabled

\* nothing is duplicated; DATA, ACK and FIN datagrams are lost, on the wire
\* or by a loss injector, until the sender has retransmitted MaxLossRounds
\* times; a timeout expires only when the wire is quiet
NextLossy ==
    \/ Connect
    \/ \E p \in s2c : ConnectRecv(p, FALSE)
    \/ StartTransfer
    \/ \E dropped \in SUBSET (next_seq..(total_chunks - 1)) :
           (dropped # {} => Lossy) /\ SendWindow(dropped)
    \/ WindowDone
    \/ \E p \in s2c : FinRecv(p, FALSE)
    \/ Quiet /\ FinTimeout
    \/ \E p \in s2c : ReceiveLoop(p, FALSE)
    \/ ReceiveLoopExit
    \/ \E dropped \in SUBSET DOMAIN sent_packets :
           (dropped # {} => Lossy) /\ Quiet /\ TimerGBNStep(dropped)
    \/ \E expired, dropped \in SUBSET DOMAIN sent_packets :
           (dropped # {} => Lossy) /\ Quiet /\ TimerSRStep(expired, dropped)
    \/ \E p \in c2s : ServerRecv(p, FALSE)
    \/ \E p \in c2s : Lossy /\ ~is_syn(p) /\ ServerDrop(p)
    \/ \E p \in s2c : Lossy /\ ~is_syn(p) /\ LoseS2C(p)

\* every thread that can take a step eventually takes one, and the channel
\* eventually delivers
SpecLossy ==
    /\ InitLossy
    /\ [][NextLossy]_vars
    /\ WF_vars(SenderFlow)
    /\ WF_vars(ReceiverFlow)
    /\ WF_vars(TimerFlow)
    /\ WF_vars(ServerFlow)


(* ------------- stop-and-wait over a channel without faults ------------ *)
InitNoLoss ==
    /\ Init
    /\ protocol_mode = "stop_wait"

\* nothing is lost, duplicated or damaged and the loss injectors are off; a
\* timeout expires only when the wire is quiet. The ACK-receiver thread that
\* send_data started reads the same socket as the send loop
NextNoLoss ==
    \/ Connect
    \/ \E p \in s2c : ConnectRecv(p, FALSE)
    \/ StartTransfer
    \/ SendStopWaitStep(FALSE)
    \/ \E p \in s2c : StopWaitRecv(p, FALSE)
    \/ Quiet /\ StopWaitTimeoutStep
    \/ StopWaitDone
    \/ \E p \in s2c : FinRecv(p, FALSE)
    \/ Quiet /\ FinTimeout
    \/ \E p \in s2c : ReceiveLoop(p, FALSE)
    \/ \E p \in c2s : ServerRecv(p, FALSE)

SpecNoLoss == InitNoLoss /\ [][NextNoLoss]_vars


(* ------ a channel that damages datagrams in both directions ------------ *)
\* what a bit flipped in transit makes of the reply p: the acknowledgement
\* number one higher, or the SYN or FIN flag cleared; the checksum field is
\* the one the server computed
Altered(p) == {[p EXCEPT !.ack_no = @ + 1], [p EXCEPT !.flags = FLAG_ACK]} \ {p}

\* the network alters a datagram on its way to the client, one at a time
CorruptReply(p, q) ==
    /\ p \in s2c
    /\ ~Damaged(p)
    /\ q \in Altered(p)
    /\ Cardinality({d \in s2c : Damaged(d)}) < MaxCorrupt
    /\ s2c' = (s2c \ {p}) \cup {q}
    /\ UNCHANGED <<event_log, config, state, window, congestion, running, stats, flows,
                   server, c2s, dups, ccalone, ack_local, codec, gbn>>

\* congestion control on or off
InitReply ==
    /\ Init
    /\ total_chunks \in 1..MaxChunksQuiet

\* nothing is lost or duplicated and the loss injectors are off; a timeout
\* expires only when the wire is quiet, and the timers within their bounds
NextReply ==
    \/ Connect
    \/ \E p \in s2c : ConnectRecv(p, FALSE)
    \/ StartTransfer
    \/ SendStopWait(FALSE)
    \/ \E p \in s2c : StopWaitRecv(p, FALSE)
    \/ Quiet /\ StopWaitTimeout
    \/ StopWaitDone
    \/ SendWindow({})
    \/ WindowDone
    \/ \E p \in s2c : FinRecv(p, FALSE)
    \/ Quiet /\ FinTimeout
    \/ \E p \in s2c : ReceiveLoop(p, FALSE)
    \/ ReceiveLoopExit
    \/ Quiet /\ TimerGBN({})
    \/ \E expired \in SUBSET DOMAIN sent_packets : Quiet /\ TimerSR(expired, {})
    \/ \E p \in c2s : ServerRecv(p, FALSE)
    \/ \E p \in s2c : \E q \in Altered(p) : CorruptReply(p, q)

SpecReply == InitReply /\ [][NextReply]_vars


(* ------- a long Selective Repeat transfer, at the store's limit -------- *)
\* the two endpoints once the first n chunks of a Selective Repeat transfer
\* without congestion control went through in order, nothing lost: all n
\* stored and acknowledged, no record left, the wire empty
SentInOrder(n) ==
    /\ protocol_mode = "selective_repeat"
    /\ state = "transferring"
    /\ base = n
    /\ next_seq = n
    /\ sent_packets = EmptyMap
    /\ acked_packets = 0..(n - 1)
    /\ congestion = [CongestionReset(CongestionInit(FALSE)) EXCEPT !.packets_in_flight = n]
    /\ running = TRUE
    /\ stats = [ClientStatsInit EXCEPT !.packets_sent = n, !.acks_received = n]
    /\ event_log = [last |-> "ack_received", syn_sent |-> 1]
    /\ pc = "win_send"
    /\ sw_i = 0
    /\ sw_retries = 0
    /\ rx_pc = "recv"
    /\ expected_seq = n
    /\ received_data = [s \in 0..(n - 1) |-> data_chunks(s)]
    /\ transfer_complete = FALSE
    /\ current_client = "client"
    /\ srv_stats = [TransferStatsInit EXCEPT !.bytes_received = n]
    /\ sink = <<>>
    /\ c2s = {}
    /\ s2c = {}
    /\ dups = 0
    /\ cc_op = "none"
    /\ cc_calls = 0
    /\ ack_local = NoAck
    /\ gbn = GBNConstructed
    /\ CodecIdle

\* the transfer has max_buffer_size chunks behind it, or up to MaxRoom
\* fewer, and up to a window of them still to send
InitFullStore ==
    /\ protocol_mode = "selective_repeat"
    /\ window_size \in 1..MaxWindow
    /\ \E n \in (max_buffer_size - MaxRoom)..max_buffer_size :
          /\ total_chunks \in (n + 1)..(n + MaxWindow)
          /\ SentInOrder(n)

\* the window phase goes on: the network loses and duplicates datagrams
\* within the bounds, the timer retransmits
NextFullStore ==
    \/ \E dropped \in SUBSET (next_seq..(total_chunks - 1)) : SendWindow(dropped)
    \/ \E p \in s2c, keep \in BOOLEAN : ReceiveLoop(p, keep)
    \/ \E p \in s2c : LoseS2C(p)
    \/ \E expired \in SUBSET DOMAIN sent_packets : Quiet /\ TimerSR(expired, {})
    \/ \E p \in c2s, keep \in BOOLEAN : ServerRecv(p, keep)
    \/ \E p \in c2s : ServerDrop(p)

SpecFullStore == InitFullStore /\ [][NextFullStore]_vars


(* ------------- a server that holds no client address ------------------ *)
\* reset: buffer and statistics cleared, current_client None
ServerReset ==
    /\ expected_seq' = 0
    /\ received_data' = EmptyMap
    /\ srv_stats' = TransferStatsInit
    /\ current_client' = "none"
    /\ transfer_complete' = FALSE
    /\ UNCHANGED <<event_log, config, state, window, congestion, running, stats, flows,
                   sink, c2s, s2c, dups, ccalone, ack_local, codec, gbn>>

\* _receive_loop: recvfrom takes datagrams from any address; a DATA packet
\* of a peer that sent no SYN is on its way before the client connects
StrayData(seq) ==
    /\ pc = "idle"
    /\ current_client = "none"
    /\ srv_stats.bytes_received + srv_stats.duplicate_packets
           + srv_stats.out_of_order + Cardinality(c2s) < MaxStray
    /\ c2s' = c2s \cup {create_data_packet(seq, data_chunks(seq), window_size)}
    /\ UNCHANGED <<event_log, config, state, window, congestion, running, stats, flows,
                   server, s2c, dups, ccalone, ack_local, codec, gbn>>

InitStray ==
    /\ Init
    /\ total_chunks \in 1..MaxChunksQuiet

\* nothing is lost, duplicated or damaged; the server may be reset at any
\* time and may be sent DATA before any SYN
NextStray ==
    \/ Connect
    \/ \E p \in s2c : ConnectRecv(p, FALSE)
    \/ StartTransfer
    \/ SendStopWait(FALSE)
    \/ \E p \in s2c : StopWaitRecv(p, FALSE)
    \/ StopWaitTimeout
    \/ StopWaitDone
    \/ SendWindow({})
    \/ WindowDone
    \/ \E p \in s2c : FinRecv(p, FALSE)
    \/ FinTimeout
    \/ \E p \in s2c : ReceiveLoop(p, FALSE)
    \/ ReceiveLoopExit
    \/ TimerGBN({})
    \/ \E expired \in SUBSET DOMAIN sent_packets : TimerSR(expired, {})
    \/ \E p \in c2s : ServerRecv(p, FALSE)
    \/ ServerReset
    \/ \E seq \in 0..(MaxChunksQuiet - 1) : StrayData(seq)

SpecStray == InitStray /\ [][NextStray]_vars


(* ------- Selective Repeat with the age of each record kept ------------- *)
\* time passes: the records of `late` are now older than the timeout
Tick(late) ==
    /\ late # {}
    /\ late \subseteq DOMAIN sent_packets
    /\ \A s \in late : ~sent_packets[s].overdue
    /\ sent_packets' = [s \in DOMAIN sent_packets |->
                          IF s \in late THEN [sent_packets[s] EXCEPT !.overdue = TRUE]
                          ELSE sent_packets[s]]
    /\ UNCHANGED <<event_log, config, state, base, next_seq, acked_packets, congestion,
                   running, stats, flows, server, c2s, s2c, dups, ccalone, ack_local, codec, gbn>>

\* the records _timer_loop finds expired: not acked and older than the timeout
Expired == {s \in DOMAIN sent_packets :
              ~sent_packets[s].acked /\ sent_packets[s].overdue}

InitTimers ==
    /\ Init
    /\ protocol_mode = "selective_repeat"
    /\ total_chunks \in 1..MaxChunksQuiet

\* datagrams are lost and reordered, not duplicated; the timer thread
\* resends the records that are overdue when it looks
NextTimers ==
    \/ Connect
    \/ \E p \in s2c : ConnectRecv(p, FALSE)
    \/ StartTransfer
    \/ SendWindow({})
    \/ WindowDone
    \/ \E p \in s2c : FinRecv(p, FALSE)
    \/ FinTimeout
    \/ \E p \in s2c : ReceiveLoop(p, FALSE)
    \/ ReceiveLoopExit
    \/ \E late \in SUBSET DOMAIN sent_packets : Tick(late)
    \/ \E dropped \in SUBSET Expired : TimerSR(Expired, dropped)
    \/ \E p \in c2s : ServerRecv(p, FALSE)
    \/ \E p \in c2s : ServerDrop(p)
    \/ \E p \in s2c : LoseS2C(p)

SpecTimers == InitTimers /\ [][NextTimers]_vars


(* ------------- _handle_ack, one statement at a time -------------------- *)
\* The receiver thread's handler is run in steps, so that the states between
\* its statements (which get_status reads without taking send_lock) are
\* states of the model. ack_local.at is the handler's position:
\*   "sample"   inside send_lock, before the RTT / on_ack_received statements
\*   "advance"  inside send_lock, before base is assigned
\*   "return"   send_lock released, before the handler returns
\* ack_local.entry is the client as it was when the lock was taken,
\* ack_local.rtts the samples the call will measure and ack_local.taken the
\* number it has taken.

\* the ACK acknowledges something new: the test that guards the handler's body
FreshAck(p) ==
    IF protocol_mode = "go_back_n" THEN p.ack_no > base
    ELSE p.ack_no - 1 \notin acked_packets

\* recvfrom returns an ACK; _handle_ack counts it, takes send_lock and tests
\* it; in the else branch acked_packets.add(seq_acked) comes first
HandleAckEnter(p, keep) ==
    /\ rx_pc = "recv"
    /\ ack_local.at = "idle"
    /\ p \in s2c
    /\ is_ack(p)
    /\ MayKeep(keep)
    /\ s2c' = Taken(s2c, p, keep)
    /\ dups' = Kept(keep)
    /\ stats' = [stats EXCEPT !.acks_received = @ + 1]
    /\ acked_packets' = IF protocol_mode # "go_back_n" /\ FreshAck(p)
                        THEN acked_packets \cup {p.ack_no - 1} ELSE acked_packets
    /\ \E rtts \in AckSamples :
           ack_local' = [at     |-> IF FreshAck(p) THEN "sample" ELSE "return",
                         ack_no |-> p.ack_no,
                         seq    |-> IF protocol_mode = "go_back_n" THEN base ELSE p.ack_no - 1,
                         rtts   |-> rtts,
                         taken  |-> 0,
                         entry  |-> [ClientView EXCEPT !.stats = stats']]
    /\ UNCHANGED <<config, state, base, next_seq, sent_packets, congestion, running,
                   event_log, flows, server, c2s, ccalone, codec, gbn>>

\* rtt = time.time() - send_time; rtt_samples.append(rtt);
\* congestion.on_ack_received(rtt); del sent_packets[seq], for the sequence
\* ack_local.seq
HandleAckTakeSample ==
    IF ack_local.seq \in DOMAIN sent_packets
    THEN /\ congestion' = OnAckReceived(congestion, ack_local.rtts[ack_local.taken + 1])
         /\ sent_packets' = Forget(sent_packets, {ack_local.seq})
    ELSE UNCHANGED <<congestion, sent_packets>>

\* one iteration of the Go-Back-N loop over range(base, ack_no), or the
\* if-statement of the else branch
HandleAckSample ==
    /\ ack_local.at = "sample"
    /\ IF protocol_mode = "go_back_n"
       THEN IF ack_local.seq < ack_local.ack_no
            THEN /\ HandleAckTakeSample
                 /\ ack_local' = [ack_local EXCEPT
                        !.seq = @ + 1,
                        !.taken = IF ack_local.seq \in DOMAIN sent_packets THEN @ + 1 ELSE @]
            ELSE /\ ack_local' = [ack_local EXCEPT !.at = "advance"]
                 /\ UNCHANGED <<congestion, sent_packets>>
       ELSE /\ HandleAckTakeSample
            /\ ack_local' = [ack_local EXCEPT !.at = "advance"]
    /\ UNCHANGED <<config, state, base, next_seq, acked_packets, running, stats, event_log,
                   flows, server, c2s, s2c, dups, ccalone, codec, gbn>>

\* self.base = ack_no, or the loop while self.base in self.acked_packets;
\* the event is logged and send_lock released
HandleAckAdvance ==
    /\ ack_local.at = "advance"
    /\ base' = IF protocol_mode = "go_back_n" THEN ack_local.ack_no
               ELSE AdvanceBase(base, acked_packets)
    /\ event_log' = LogEvents(event_log, <<"ack_received">>)
    /\ ack_local' = [ack_local EXCEPT !.at = "return"]
    /\ UNCHANGED <<config, state, next_seq, sent_packets, acked_packets, congestion, running,
                   stats, flows, server, c2s, s2c, dups, ccalone, codec, gbn>>

\* the handler returns and _receive_loop tests self.running again
HandleAckReturn ==
    /\ ack_local.at = "return"
    /\ ack_local' = NoAck
    /\ rx_pc' = IF running THEN "recv" ELSE "stopped"
    /\ UNCHANGED <<config, state, window, congestion, running, stats, event_log, pc, sw_i,
                   sw_retries, server, c2s, s2c, dups, ccalone, codec, gbn>>

\* send_lock is free: the handler is not between its with-statement's ends
LockFree == ack_local.at \in {"idle", "return"}

\* a sliding-window transfer of one or two chunks
InitHandler ==
    /\ Init
    /\ protocol_mode \in {"go_back_n", "selective_repeat"}
    /\ total_chunks \in 1..MaxChunksQuiet

NextHandler ==
    \/ Connect
    \/ \E p \in s2c, keep \in BOOLEAN : ConnectRecv(p, keep)
    \/ ConnectTimeout
    \/ StartTransfer
    \/ LockFree /\ \E dropped \in SUBSET (next_seq..(total_chunks - 1)) : SendWindow(dropped)
    \/ WindowDone
    \/ \E p \in s2c, keep \in BOOLEAN : FinRecv(p, keep)
    \/ FinTimeout
    \/ \E p \in s2c, keep \in BOOLEAN : HandleAckEnter(p, keep)
    \/ HandleAckSample
    \/ HandleAckAdvance
    \/ HandleAckReturn
    \/ ack_local.at = "idle" /\ ReceiveLoopExit
    \/ LockFree /\ \E dropped \in SUBSET DOMAIN sent_packets : TimerGBN(dropped)
    \/ LockFree /\ \E expired, dropped \in SUBSET DOMAIN sent_packets : TimerSR(expired, dropped)
    \/ \E p \in c2s, keep \in BOOLEAN : ServerRecv(p, keep)
    \/ \E p \in c2s : ServerDrop(p)
    \/ \E p \in s2c : LoseS2C(p)

SpecHandler == InitHandler /\ [][NextHandler]_vars


(* ---------------- send_data called a second time ---------------------- *)
\* send_data / send_file on a client whose transfer is over: the state is
\* COMPLETED or ERROR, not CONNECTED, so connect() runs again. It opens a new
\* socket, which nothing sent to the old one reaches, enters CONNECTING and
\* sends a SYN. The receiver thread of the transfer before is not joined;
\* it goes on until it tests self.running
SendDataAgain ==
    /\ pc \in {"done", "failed"}
    /\ event_log.syn_sent < MaxTransfers
    /\ s2c' = {}
    /\ state' = "connecting"
    /\ c2s' = c2s \cup {create_syn_packet(0, window_size)}
    /\ pc' = "syn_wait"
    /\ event_log' = LogEvents(event_log, <<"syn_sent">>)
    /\ UNCHANGED <<config, window, congestion, running, stats, sw_i, sw_retries,
                   rx_pc, server, dups, ccalone, ack_local, codec, gbn>>

\* a sliding-window transfer of one chunk without congestion control, and
\* the same data sent again
InitAgain ==
    /\ InitHandler
    /\ total_chunks = 1
    /\ window_size = 1
    /\ ~congestion.enabled

NextAgain == NextHandler \/ SendDataAgain

SpecAgain == InitAgain /\ [][NextAgain]_vars


(* -------------------- GBNSender and GBNReceiver ----------------------- *)
\* gbn.at is the position of the thread that called send_data:
\*   "new"      send_data not called yet
\*   "loop"     at the test of the main send loop
\*   "send"     before the with-block that fills the window
\*   "check"    before the call of _check_timeout
\*   "timeout"  _check_timeout returned True, _handle_timeout not yet entered
\*   "done"     send_data returned
\* Each with self.lock block is one step. The ACK thread runs _handle_ack
\* between any two steps of the send loop.

\* SendWindow.can_send
can_send(g) == g.next_seq < g.base + window_size

\* SendWindow.advance_base
advance_base(g, new_ack) == IF new_ack > g.base THEN new_ack ELSE g.base

\* the sender's datagram for sequence seq_no
GBNData(seq_no) == create_data_packet(seq_no, data_chunks(seq_no), window_size)

\* send_data up to the main loop: statistics, base, next_seq and
\* sent_packets are reset, running is set and the receiver thread started
GBNSendData ==
    /\ gbn.at = "new"
    /\ gbn' = [gbn EXCEPT !.stats = GBNStatsInit, !.base = 0, !.next_seq = 0,
                          !.sent_packets = {}, !.running = TRUE, !.at = "loop"]
    /\ UNCHANGED <<config, state, window, congestion, running, stats, event_log, flows,
                   server, c2s, s2c, dups, ccalone, ack_local, codec>>

\* while self.running and self.window.base < self.total_chunks; after the
\* loop running is cleared and send_data returns
GBNLoopTest ==
    /\ gbn.at = "loop"
    /\ gbn' = IF gbn.running /\ gbn.base < total_chunks
              THEN [gbn EXCEPT !.at = "send"]
              ELSE [gbn EXCEPT !.at = "done", !.running = FALSE]
    /\ UNCHANGED <<config, state, window, congestion, running, stats, event_log, flows,
                   server, c2s, s2c, dups, ccalone, ack_local, codec>>

\* with self.lock: _send_packet(next_seq) while the window has room and
\* chunks are left. The first one sets timer_start if it is None; each is
\* recorded and counted, and sent unless the loss injector takes it
GBNSendBlock(dropped) ==
    LET edge   == IF total_chunks < gbn.base + window_size
                  THEN total_chunks ELSE gbn.base + window_size
        framed == gbn.next_seq..(edge - 1)
    IN  /\ gbn.at = "send"
        /\ dropped \subseteq framed
        /\ gbn' = [gbn EXCEPT
                     !.timer_start = IF framed # {} THEN "set" ELSE @,
                     !.sent_packets = @ \cup framed,
                     !.data = @ \cup {GBNData(s) : s \in framed \ dropped},
                     !.stats.packets_sent = @ + Cardinality(framed),
                     !.next_seq = IF framed # {} THEN edge ELSE @,
                     !.at = "check"]
        /\ UNCHANGED <<config, state, window, congestion, running, stats, event_log, flows,
                       server, c2s, s2c, dups, ccalone, ack_local, codec>>

\* _check_timeout, called without the lock: False when timer_start is None,
\* else whether the timer has run for longer than self.timeout
GBNCheckTimeout(expired) ==
    /\ gbn.at = "check"
    /\ expired => gbn.timer_start # "None" /\ gbn.stats.timeouts < MaxTimeouts
    /\ gbn' = [gbn EXCEPT !.at = IF expired THEN "timeout" ELSE "loop"]
    /\ UNCHANGED <<config, state, window, congestion, running, stats, event_log, flows,
                   server, c2s, s2c, dups, ccalone, ack_local, codec>>

\* _handle_timeout: under the lock the timeout is counted, every recorded
\* sequence of range(base, next_seq) is sent again (unless the loss injector
\* takes it) and counted, and timer_start is set
GBNHandleTimeout(dropped) ==
    LET again == {s \in gbn.base..(gbn.next_seq - 1) : s \in gbn.sent_packets}
    IN  /\ gbn.at = "timeout"
        /\ dropped \subseteq again
        /\ gbn' = [gbn EXCEPT
                     !.stats.timeouts = @ + 1,
                     !.stats.retransmissions = @ + Cardinality(again),
                     !.data = @ \cup {GBNData(s) : s \in again \ dropped},
                     !.timer_start = "set",
                     !.at = "loop"]
        /\ UNCHANGED <<config, state, window, congestion, running, stats, event_log, flows,
                       server, c2s, s2c, dups, ccalone, ack_local, codec>>

\* _receive_acks and _handle_ack: a datagram with the ACK flag whose ack_no
\* is above base takes the records below ack_no away, advances base and
\* restarts the timer, or clears it when nothing is outstanding
GBNHandleAck(p) ==
    /\ gbn.running
    /\ p \in gbn.acks
    /\ gbn' = IF is_ack(p) /\ p.ack_no > gbn.base
              THEN [gbn EXCEPT
                      !.acks = @ \ {p},
                      !.sent_packets = @ \ (gbn.base..(p.ack_no - 1)),
                      !.base = advance_base(gbn, p.ack_no),
                      !.stats.acks_received = @ + 1,
                      !.stats.window_advances = @ + 1,
                      !.timer_start = IF advance_base(gbn, p.ack_no) < gbn.next_seq
                                      THEN "set" ELSE "None"]
              ELSE [gbn EXCEPT !.acks = @ \ {p}]
    /\ UNCHANGED <<config, state, window, congestion, running, stats, event_log, flows,
                   server, c2s, s2c, dups, ccalone, ack_local, codec>>

\* GBNReceiver.receive_packet: an in-order packet is accepted; the
\* cumulative ACK is sent in any case unless the loss injector takes it
GBNReceivePacket(p, lost) ==
    LET e == IF p.seq_no = gbn.expected_seq THEN gbn.expected_seq + 1
             ELSE gbn.expected_seq
    IN  /\ p \in gbn.data
        /\ gbn' = [gbn EXCEPT
                     !.data = @ \ {p},
                     !.expected_seq = e,
                     !.acks = IF lost THEN @ ELSE @ \cup {create_ack_packet(0, e, 10)}]
        /\ UNCHANGED <<config, state, window, congestion, running, stats, event_log, flows,
                       server, c2s, s2c, dups, ccalone, ack_local, codec>>

\* one send_data call on a GBNSender
InitGBN ==
    /\ Init
    /\ protocol_mode = "go_back_n"
    /\ ~congestion.enabled

NextGBN ==
    \/ GBNSendData
    \/ GBNLoopTest
    \/ \E dropped \in SUBSET (gbn.next_seq..(total_chunks - 1)) : GBNSendBlock(dropped)
    \/ \E expired \in BOOLEAN : GBNCheckTimeout(expired)
    \/ \E dropped \in SUBSET gbn.sent_packets : GBNHandleTimeout(dropped)
    \/ \E p \in gbn.acks : GBNHandleAck(p)
    \/ \E p \in gbn.data, lost \in BOOLEAN : GBNReceivePacket(p, lost)

SpecGBN == InitGBN /\ [][NextGBN]_vars


(* ------------------ Packet.to_bytes and Packet.from_bytes -------------- *)
\* Here a packet's data and a datagram are sequences of bytes (0..255) and
\* the checksum is the number the code computes, the low 16 bits of the
\* CRC-32 of the covered bytes.

\* struct.pack in network byte order: n as w bytes, most significant first
PackBE(n, w) == [i \in 1..w |-> (n \div (256 ^ (w - i))) % 256]

RECURSIVE UnpackBE(_)
\* struct.unpack in network byte order: the number the bytes bs stand for
UnpackBE(bs) ==
    IF bs = <<>> THEN 0 ELSE 256 * UnpackBE(SubSeq(bs, 1, Len(bs) - 1)) + bs[Len(bs)]

RECURSIVE Xor(_, _, _)
\* a ^ b for numbers of k bits
Xor(a, b, k) ==
    IF k = 0 THEN 0 ELSE ((a + b) % 2) + 2 * Xor(a \div 2, b \div 2, k - 1)

\* The 32-bit CRC register is kept as its two 16-bit halves, <<low, high>>.
\* the reflected CRC-32 polynomial of zlib, 0xEDB88320: 0x8320 and 0xEDB8
Crc32Poly == <<33568, 60856>>

RECURSIVE Crc32Shift(_, _)
\* k rounds of: shift the register right, and xor the polynomial in when the
\* bit shifted out is 1
Crc32Shift(reg, k) ==
    IF k = 0 THEN reg
    ELSE LET low  == (reg[1] \div 2) + 32768 * (reg[2] % 2)
             high == reg[2] \div 2
         IN  Crc32Shift(IF reg[1] % 2 = 1
                        THEN <<Xor(low, Crc32Poly[1], 16), Xor(high, Crc32Poly[2], 16)>>
                        ELSE <<low, high>>,
                        k - 1)

RECURSIVE Crc32Update(_, _)
\* the register after the bytes bs: each byte is xored into the low 8 bits
\* and shifted through (the test next[1] >= 0, always true, has the register
\* computed before the next byte is taken)
Crc32Update(reg, bs) ==
    IF bs = <<>> THEN reg
    ELSE LET next == Crc32Shift(<<Xor(reg[1], Head(bs), 16), reg[2]>>, 8)
         IN  IF next[1] >= 0 THEN Crc32Update(next, Tail(bs)) ELSE next

\* zlib.crc32(bs) & 0xFFFF: the register starts and ends inverted
Crc32Low16(bs) == Xor(Crc32Update(<<65535, 65535>>, bs)[1], 65535, 16)

\* Packet.calculate_checksum on bytes
calculate_checksum_bytes(p) ==
    Crc32Low16(PackBE(p.seq_no, 4) \o PackBE(p.ack_no, 4) \o PackBE(p.flags, 1)
                 \o PackBE(p.window, 2) \o p.data)

\* to_bytes that packs the checksum field as it stands
to_bytes_stale(p) ==
    PackBE(p.seq_no, 4) \o PackBE(p.ack_no, 4) \o PackBE(p.flags, 1) \o PackBE(p.window, 2)
        \o PackBE(p.checksum, 2) \o p.data

\* Packet.to_bytes: the bytes returned
to_bytes(p) ==
    PackBE(p.seq_no, 4) \o PackBE(p.ack_no, 4) \o PackBE(p.flags, 1) \o PackBE(p.window, 2)
        \o PackBE(calculate_checksum_bytes(p), 2) \o p.data

\* Packet.to_bytes: the object afterwards (self.checksum is assigned)
Serialized(p) == [p EXCEPT !.checksum = calculate_checksum_bytes(p)]

\* Packet.from_bytes: <<>> for None, else the packet in a one-element
\* sequence; unpack of exactly HEADER_SIZE bytes raises no struct.error
from_bytes(data) ==
    IF Len(data) < HEADER_SIZE THEN <<>>
    ELSE <<[seq_no   |-> UnpackBE(SubSeq(data, 1, 4)),
            ack_no   |-> UnpackBE(SubSeq(data, 5, 8)),
            flags    |-> UnpackBE(SubSeq(data, 9, 9)),
            window   |-> UnpackBE(SubSeq(data, 10, 11)),
            data     |-> SubSeq(data, HEADER_SIZE + 1, Len(data)),
            checksum |-> UnpackBE(SubSeq(data, 12, 13))]>>

\* Packet.verify_checksum on bytes
verify_checksum_bytes(p) == p.checksum = calculate_checksum_bytes(p)

\* payloads of at most MaxPayload bytes
Payloads == UNION {[1..n -> {0, 1, 255}] : n \in 0..MaxPayload}

\* a Packet is constructed, with header fields at the ends and in the middle
\* of their widths (a 32-bit field up to 2^31 - 1, the largest number the
\* checker's integers hold); its checksum field holds the default 0 or what
\* the caller passed
InitCodec ==
    /\ protocol_mode = "stop_wait"
    /\ window_size = 1
    /\ total_chunks = 0
    /\ EndpointsConstructed(CongestionInit(TRUE))
    /\ packet \in [seq_no   : {0, 65536, 2147483647},
                    ack_no   : {1, 16777215},
                    flags    : {FLAG_SYN, FLAG_ACK, FLAG_SYN + FLAG_ACK, FLAG_FIN + FLAG_ACK,
                                FLAG_DATA, 255},
                    window   : {0, 5, 65535},
                    data     : Payloads,
                    checksum : {0, 65535}]
    /\ datagram = <<>>
    /\ decoded = <<>>
    /\ codec_pc = "constructed"

\* wire = p.to_bytes()
ToBytes ==
    /\ codec_pc = "constructed"
    /\ datagram' = to_bytes(packet)
    /\ packet' = Serialized(packet)
    /\ codec_pc' = "serialized"
    /\ UNCHANGED <<config, state, window, congestion, running, stats, event_log, flows,
                   server, c2s, s2c, dups, ccalone, ack_local, decoded, gbn>>

\* only the first n bytes of the datagram arrive
Truncate(n) ==
    /\ codec_pc = "serialized"
    /\ n < Len(datagram)
    /\ datagram' = SubSeq(datagram, 1, n)
    /\ codec_pc' = "truncated"
    /\ UNCHANGED <<config, state, window, congestion, running, stats, event_log, flows,
                   server, c2s, s2c, dups, ccalone, ack_local, packet, decoded, gbn>>

\* q = Packet.from_bytes(wire)
FromBytes ==
    /\ codec_pc \in {"serialized", "truncated"}
    /\ decoded' = from_bytes(datagram)
    /\ codec_pc' = IF codec_pc = "serialized" THEN "parsed" ELSE "parsed_truncated"
    /\ UNCHANGED <<config, state, window, congestion, running, stats, event_log, flows,
                   server, c2s, s2c, dups, ccalone, ack_local, packet, datagram, gbn>>

NextCodec ==
    \/ ToBytes
    \/ \E n \in 0..(HEADER_SIZE + MaxPayload) : Truncate(n)
    \/ FromBytes

SpecCodec == InitCodec /\ [][NextCodec]_vars


(* ---------------- a CongestionController on its own ------------------- *)
\* one call on the controller, whatever the endpoints are doing
CCCall(op, c) ==
    /\ cc_calls < MaxCalls
    /\ congestion' = c
    /\ cc_op' = op
    /\ cc_calls' = cc_calls + 1
    /\ UNCHANGED <<event_log, config, state, window, running, stats, flows, server, c2s, s2c,
                   dups, ack_local, codec, gbn>>

CCPacketSent == CCCall("on_packet_sent", OnPacketSent(congestion))

\* the guard keeps the exact fractions within the machine integers
CCAckReceived(sample) ==
    /\ congestion.cwnd.d = 1 \/ congestion.cwnd.n <= MaxDen
    /\ CCCall("on_ack_received", OnAckReceived(congestion, sample))

CCTimeout == CCCall("on_timeout", OnTimeout(congestion))

CCTripleDuplicateAck ==
    CCCall("on_triple_duplicate_ack", OnTripleDuplicateAck(congestion))

CCReset == CCCall("reset", CongestionReset(congestion))

\* a controller as constructed, or one whose window has grown to max_cwnd
\* (where a long run of on_ack_received() calls without a timeout leaves it)
Saturated == [CongestionInit(TRUE) EXCEPT !.cwnd = max_cwnd]

InitCC ==
    /\ protocol_mode = "selective_repeat"
    /\ window_size = 1
    /\ total_chunks = 0
    /\ \E c \in {CongestionInit(TRUE), CongestionInit(FALSE), Saturated} :
           Constructed(c)

NextCC ==
    \/ CCPacketSent
    \/ \E sample \in RTTSamples \cup {NoSample} : CCAckReceived(sample)
    \/ CCTimeout
    \/ CCTripleDuplicateAck
    \/ CCReset

SpecCC == InitCC /\ [][NextCC]_vars

(* ------------------------------- claims ------------------------------- *)

\* C1: whenever the client is COMPLETED, every stream the server has
\* committed to the sink on FIN equals the input stream S.
C1_CompletedDeliversInput ==
    state = "completed" => \A i \in 1..Len(sink) : sink[i] = InputStream

\* C2: a stream committed on FIN is the payloads of sequence numbers
\* 0, 1, 2, ... in increasing order with no gap: its j-th payload is that of
\* sequence number j-1.
C2_CommitInOrderNoGap ==
    \A i \in 1..Len(sink) : \A j \in 1..Len(sink[i]) : sink[i][j] = data_chunks(j - 1)

\* C3: under duplication of datagrams no payload reaches the sink twice: a
\* committed stream holds no payload twice, and the stream is committed at
\* most once per transfer.
C3_DeliveredAtMostOnce ==
    /\ Len(sink) <= 1
    /\ \A i \in 1..Len(sink) : \A j, k \in 1..Len(sink[i]) :
           j # k => sink[i][j] # sink[i][k]

SlidingWithCongestion ==
    protocol_mode \in {"go_back_n", "selective_repeat"} /\ congestion.enabled

\* C4 as claimed: in the sliding-window modes with congestion control on,
\* next_seq - base <= min(window_size, effective_window) in every state.
C4_WindowBoundAlways ==
    SlidingWithCongestion =>
        next_seq - base <= Min2(window_size, EffectiveWindow(congestion))

\* C4 as amended: next_seq - base never exceeds window_size, and it is at
\* most min(window_size, effective_window) right after every pass of the
\* transmitter that advances next_seq.
C4_WindowBoundWhenSending ==
    [][SlidingWithCongestion =>
         /\ next_seq' - base' <= window_size
         /\ next_seq' > next_seq =>
                next_seq' - base' <= Min2(window_size, EffectiveWindow(congestion'))]_vars

\* C4 witness: the congestion window, not window_size, limited a pass that
\* sent a packet
C4_Witness ==
    /\ SlidingWithCongestion
    /\ state = "transferring"
    /\ window_size = 2
    /\ next_seq = 1
    /\ base = 0
    /\ EffectiveWindow(congestion) = 1

\* C5: base <= next_seq in every state of the client, in every mode.
C5_BaseAtMostNextSeq == base <= next_seq

\* C6: in Selective Repeat mode every element of acked_packets lies in
\* [base, next_seq), so base is not one of them and none is below base.
C6_AckedInsideWindow ==
    protocol_mode = "selective_repeat" =>
        \A s \in acked_packets : base <= s /\ s < next_seq

\* C7: in Selective Repeat mode the receiver holds no payload at or beyond
\* expected_seq + window_size, and expected_seq is not a key of its buffer.
C7_ReceiveWindow ==
    protocol_mode = "selective_repeat" =>
        /\ \A k \in DOMAIN received_data : k < expected_seq + window_size
        /\ expected_seq \notin DOMAIN received_data

\* C8: after any sequence of on_packet_sent, on_ack_received, on_timeout,
\* on_triple_duplicate_ack and reset calls, min_cwnd <= cwnd <= max_cwnd and
\* the reported phase is Slow Start exactly when cwnd < ssthresh.
C8_CwndBoundsAndPhase ==
    /\ RLeq(min_cwnd, congestion.cwnd)
    /\ RLeq(congestion.cwnd, max_cwnd)
    /\ (CCState(congestion) = "slow_start") <=> RLess(congestion.cwnd, congestion.ssthresh)

\* C8 witness: a timeout hit a controller whose cwnd had reached max_cwnd:
\* ssthresh is half of max_cwnd and cwnd is back at min_cwnd, in Slow Start
C8_Witness ==
    /\ cc_op = "on_timeout"
    /\ congestion.enabled
    /\ congestion.cwnd = min_cwnd
    /\ congestion.ssthresh = RDivInt(max_cwnd, 2)
    /\ CCState(congestion) = "slow_start"

\* C9: after any sequence of on_ack_received calls with non-negative RTT
\* samples (zero and very large ones included), on_timeout and reset,
\* 0.2 <= rto <= 60 seconds.
C9_RtoBounds ==
    /\ RLeq(RTO_MIN, congestion.rto)
    /\ RLeq(congestion.rto, RTO_MAX)

\* C9 witness: samples of 100 s were absorbed and the RTO sits at its cap
C9_Witness ==
    /\ cc_op = "on_ack_received"
    /\ RLess(RTO_MAX, congestion.srtt)
    /\ congestion.rto = RTO_MAX

\* C10: with congestion control enabled, an on_ack_received call made while
\* cwnd < ssthresh strictly increases cwnd, and one made while
\* cwnd >= ssthresh raises cwnd by at most 1/cwnd and never lowers it.
C10_AckGrowth ==
    [][(cc_op' = "on_ack_received" /\ cc_calls' = cc_calls + 1 /\ congestion.enabled)
        => IF RLess(congestion.cwnd, congestion.ssthresh)
           THEN RLess(congestion.cwnd, congestion'.cwnd)
           ELSE /\ RLeq(congestion.cwnd, congestion'.cwnd)
                /\ RLeq(RSub(congestion'.cwnd, congestion.cwnd),
                        RInv(congestion.cwnd))]_vars

\* C10 witness: an ACK in congestion avoidance took cwnd from 2 to 5/2
C10_Witness ==
    /\ cc_op = "on_ack_received"
    /\ congestion.enabled
    /\ congestion.ssthresh = RInt(2)
    /\ congestion.cwnd = Rat(5, 2)

\* the ACK datagrams the receiver thread of a sliding-window transfer can be
\* handed in this state
AcksAtHand ==
    IF protocol_mode \in {"go_back_n", "selective_repeat"} /\ rx_pc = "recv"
    THEN {p \in s2c : is_ack(p)} ELSE {}

\* C11 as claimed: in Go-Back-N and Selective Repeat, _handle_ack applied
\* twice in succession to the same ACK leaves base, next_seq, the acked set,
\* the sent-packet records, the congestion state and the statistics counters
\* as one application does.
C11_AckTwiceSameState ==
    \A p \in AcksAtHand : \A rtts \in AckSamples :
        handle_ack(handle_ack(ClientView, p, rtts), p, rtts)
            = handle_ack(ClientView, p, rtts)

\* C11 as amended: the second application changes nothing but
\* stats.acks_received, which counts both arrivals.
C11_AckTwiceSameWindow ==
    \A p \in AcksAtHand : \A rtts \in AckSamples :
        LET once  == handle_ack(ClientView, p, rtts)
            twice == handle_ack(once, p, rtts)
        IN  /\ twice.stats.acks_received = once.stats.acks_received + 1
            /\ [twice EXCEPT !.stats.acks_received = @ - 1] = once

\* C11 witness: an ACK that advances base and grows cwnd is at hand
C11_Witness ==
    \E p \in AcksAtHand : \E rtts \in AckSamples :
        LET once == handle_ack(ClientView, p, rtts)
        IN  /\ once.base > base
            /\ RLess(congestion.cwnd, once.congestion.cwnd)
            /\ p.ack_no - 1 \in DOMAIN sent_packets

\* C12: in every mode no packet is retransmitted more than max_retries
\* times: the retransmission count of an outstanding packet and the
\* stop-and-wait loop's retries never pass the cap, and when the
\* stop-and-wait retries reach it the state is ERROR.
C12_RetransmissionCap ==
    /\ \A s \in DOMAIN sent_packets : sent_packets[s].retransmissions <= max_retries
    /\ sw_retries <= max_retries
    /\ sw_retries = max_retries => state = "error"

\* C14: at the step where a transfer fails (connect, send_data or send_file
\* returns False) the sender's state is ERROR, the last entry of its event
\* log has kind 'error', no FIN is on its way and the receiver has committed
\* no stream.
C14_FailureIsError ==
    [][(pc' = "failed" /\ pc # "failed")
        => /\ state' = "error"
           /\ event_log'.last = "error"
           /\ \A p \in c2s' : ~is_fin(p)
           /\ sink' = <<>>]_vars

\* C16: connect() fails with state ERROR only after the SYN has been
\* retransmitted: at the step where the handshake gives up, more than one
\* SYN has been sent.
C16_SynRetransmitted ==
    [][(pc = "syn_wait" /\ pc' = "failed" /\ state' = "error")
        => event_log.syn_sent > 1]_vars

C17_FinAfterAllAcked ==
    [][/\ (state' = "closing" /\ state # "closing") =>
              /\ \E p \in c2s' : is_fin(p)
              /\ IF protocol_mode = "stop_wait" THEN sw_i' = total_chunks
                 ELSE base' = total_chunks /\ next_seq' = total_chunks
       /\ (\E p \in c2s' \ c2s : is_fin(p)) => state' = "closing"
       /\ (state' = "completed" /\ state # "completed") => state = "closing"
       /\ state = "closing" => state' \in {"closing", "completed"}]_vars


\* C18: a DATA datagram whose checksum does not verify is counted once in
\* checksum_errors and otherwise ignored by the receiver (expected_seq, the
\* stored payloads and the committed output keep their values and nothing is
\* sent back), and the sender transmits that sequence again
DiscardedUnverified ==
    (\E p \in c2s \ c2s' : Damaged(p)) =>
        /\ srv_stats' = [srv_stats EXCEPT !.checksum_errors = @ + 1]
        /\ UNCHANGED <<expected_seq, received_data, transfer_complete, sink, s2c>>

DamagedInFlight(s) == \E p \in c2s : is_data(p) /\ p.seq_no = s /\ Damaged(p)

IntactInFlight(s) == \E p \in c2s : is_data(p) /\ p.seq_no = s /\ ~Damaged(p)

C13_TransferCompletes ==
    (state = "transferring" /\ protocol_mode # "stop_wait")
        ~> (base = total_chunks /\ state = "completed")


\* C20: in stop-and-wait over a channel without loss, whenever the send loop
\* is about to transmit, after k chunks, it has transmitted k DATA packets,
\* retransmitted none and counted k ACKs
C20_StopWaitCounts ==
    (protocol_mode = "stop_wait" /\ state = "transferring" /\ pc = "sw_send") =>
        /\ stats.packets_sent = sw_i
        /\ stats.retransmissions = 0
        /\ stats.acks_received = sw_i


\* C19: a step in which the receiver processes a DATA datagram whose checksum
\* verifies and whose sequence lies in [expected_seq, expected_seq +
\* window_size) puts the ACK answering it on the wire, in every mode and
\* whether or not a SYN came first; no DATA datagram puts more than one
\* datagram on the wire
AckFor(p) ==
    create_ack_packet(0,
                      IF protocol_mode = "selective_repeat" THEN p.seq_no + 1
                      ELSE expected_seq',
                      IF protocol_mode = "stop_wait" THEN 1 ELSE window_size)

C19_OneAckPerData ==
    [][\A p \in c2s \ c2s' :
          (is_data(p) /\ ~is_syn(p) /\ ~Damaged(p)) =>
              /\ Cardinality(s2c' \ s2c) <= 1
              /\ (p.seq_no >= expected_seq /\ p.seq_no < expected_seq + window_size)
                     => AckFor(p) \in s2c']_vars

C26_TimeoutReachesController ==
    [][stats'.retransmissions > stats.retransmissions =>
          /\ stats'.timeouts > stats.timeouts
          /\ congestion' = OnTimeout(congestion)]_vars

\* C24: in Selective Repeat mode a step in which the receiver buffers a DATA
\* packet ahead of expected_seq leaves its out_of_order counter as it was
C24_BufferedNotOutOfOrder ==
    [][(/\ protocol_mode = "selective_repeat"
        /\ \E k \in DOMAIN received_data' \ DOMAIN received_data : k > expected_seq)
          => srv_stats'.out_of_order = srv_stats.out_of_order]_vars

\* what a step may do to the receiver in the in-order modes; the receiver
\* takes p off the wire in the steps that leave c2s \ {p}
InOrderOnlyStep ==
    protocol_mode \in {"stop_wait", "go_back_n"} =>
        /\ DOMAIN received_data' \ DOMAIN received_data \subseteq {expected_seq}
        /\ \A p \in c2s \ c2s' :
              (/\ c2s' = c2s \ {p}
               /\ is_data(p) /\ ~Damaged(p) /\ p.seq_no # expected_seq) =>
                  /\ UNCHANGED <<received_data, expected_seq>>
                  /\ srv_stats' =
                       IF p.seq_no > expected_seq
                       THEN [srv_stats EXCEPT !.out_of_order = @ + 1]
                       ELSE [srv_stats EXCEPT !.duplicate_packets = @ + 1]
                  /\ \E a \in s2c' :
                        /\ is_ack(a) /\ ~is_syn(a) /\ ~is_fin(a)
                        /\ a.ack_no = expected_seq
                        /\ s2c' \ s2c \subseteq {a}

GBNTimeoutStep ==
    (protocol_mode = "go_back_n" /\ stats'.timeouts = stats.timeouts + 1) =>
        /\ base \in DOMAIN sent_packets
        /\ \A s \in base..(next_seq - 1) : s \in DOMAIN sent_packets
        /\ DOMAIN sent_packets' = DOMAIN sent_packets
        /\ \A s \in DOMAIN sent_packets :
              sent_packets'[s].retransmissions =
                  sent_packets[s].retransmissions
                      + (IF s \in base..(next_seq - 1) THEN 1 ELSE 0)
        /\ stats'.retransmissions = stats.retransmissions + (next_seq - base)
        /\ \A p \in c2s' \ c2s :
              /\ p.seq_no \in base..(next_seq - 1)
              /\ p = create_data_packet(p.seq_no, data_chunks(p.seq_no), window_size)
        /\ UNCHANGED <<base, next_seq>>

SRRetransmitStep ==
    (protocol_mode = "selective_repeat"
        /\ stats'.retransmissions > stats.retransmissions) =>
        LET resent == {s \in DOMAIN sent_packets :
                          sent_packets'[s].retransmissions
                              > sent_packets[s].retransmissions}
        IN  /\ DOMAIN sent_packets' = DOMAIN sent_packets
            /\ stats'.retransmissions = stats.retransmissions + Cardinality(resent)
            /\ \A p \in c2s' \ c2s : is_data(p) /\ p.seq_no \in resent
            /\ \A s \in resent :
                  /\ sent_packets[s].overdue
                  /\ s \notin acked_packets
                  /\ sent_packets'[s].retransmissions
                         = sent_packets[s].retransmissions + 1
                  /\ ~sent_packets'[s].overdue

\* C23: in Selective Repeat mode a sequence is retransmitted only when its
\* own record is older than the timeout and it has not been acknowledged;
\* a record that is not overdue, or an acknowledged sequence, is never
\* resent along with another
C23_OnlyExpiredResent == [][SRRetransmitStep]_vars

\* C23 witness: of two sequences sent together, 0 was resent once and 1,
\* still unacknowledged and not overdue, was not
C23_Witness ==
    /\ DOMAIN sent_packets = {0, 1}
    /\ stats.retransmissions = 1
    /\ sent_packets[0].retransmissions = 1
    /\ sent_packets[1].retransmissions = 0
    /\ ~sent_packets[1].overdue
    /\ \E p \in c2s : is_data(p) /\ p.seq_no = 0

\* the sequences whose record the step deletes, that is, whose ACK it
\* processes
AckedNow == DOMAIN sent_packets \ DOMAIN sent_packets'

\* C28: a step that processes the ACK of packets that were all retransmitted
\* at least once feeds no RTT sample to the congestion controller: srtt,
\* rttvar and rto keep their values
C28_NoSampleFromRetransmitted ==
    [][(AckedNow # {} /\ \A s \in AckedNow : sent_packets[s].retransmissions > 0)
          => /\ congestion'.srtt = congestion.srtt
             /\ congestion'.rttvar = congestion.rttvar
             /\ congestion'.rto = congestion.rto]_vars

\* an ACK that acknowledges nothing new: ack_no <= base in Go-Back-N mode,
\* a sequence already in acked_packets in Selective Repeat mode
StaleAck(p) ==
    \/ protocol_mode = "go_back_n" /\ p.ack_no <= base
    \/ protocol_mode = "selective_repeat" /\ p.ack_no - 1 \in acked_packets

\* the receiver thread takes the stale ACK p off the wire and _handle_ack
\* processes it
StaleAckStep(p) ==
    /\ p \in s2c
    /\ is_ack(p)
    /\ StaleAck(p)
    /\ rx_pc = "recv"
    /\ s2c' = s2c \ {p}
    /\ stats'.acks_received = stats.acks_received + 1

\* what C29 says a stale ACK leaves alone
StaleAckFrame ==
    /\ UNCHANGED <<base, next_seq, acked_packets, sent_packets>>
    /\ congestion'.cwnd = congestion.cwnd
    /\ congestion'.packets_in_flight = congestion.packets_in_flight

\* C29: processing an ACK with ack_no <= base in Go-Back-N mode, or for a
\* sequence already in the acked set in Selective Repeat mode, leaves base,
\* next_seq, the acked set, the sent-packet records, cwnd and
\* packets_in_flight unchanged
C29_StaleAckNoEffect == [][\A p \in s2c : StaleAckStep(p) => StaleAckFrame]_vars

\* C29 witness: in Go-Back-N mode with congestion control on and a packet
\* outstanding, more ACKs have been processed than base has advanced, so
\* one of them had ack_no <= base
C29_Witness ==
    /\ protocol_mode = "go_back_n"
    /\ congestion.enabled
    /\ stats.acks_received > base
    /\ base > 0
    /\ sent_packets # EmptyMap
    /\ congestion.packets_in_flight > 0

\* the same in Selective Repeat mode: more ACKs processed than sequences
\* recorded in the acked set
C29_WitnessSR ==
    /\ protocol_mode = "selective_repeat"
    /\ congestion.enabled
    /\ stats.acks_received > Cardinality(acked_packets)
    /\ sent_packets # EmptyMap

\* the client as the atomic _handle_ack of the other specifications leaves
\* it, for the call whose locals are a
HandlerGoal(a) ==
    handle_ack([a.entry EXCEPT !.stats.acks_received = @ - 1], [ack_no |-> a.ack_no], a.rtts)

\* a _handle_ack call that will advance base holds send_lock
AdvancingAck ==
    /\ ack_local.at \in {"sample", "advance"}
    /\ HandlerGoal(ack_local).base > ack_local.entry.base

\* C30: within one invocation of _handle_ack, base is advanced before
\* on_ack_received is applied: no state inside the handler has
\* packets_in_flight already below its value at entry while base still has
\* its value at entry
C30_BaseBeforeController ==
    AdvancingAck =>
        ~(/\ congestion.packets_in_flight < ack_local.entry.congestion.packets_in_flight
          /\ base = ack_local.entry.base)

\* run statement by statement, the handler leaves the window and the
\* controller where the atomic _handle_ack leaves them
HandlerAgreesStep ==
    (ack_local.at # "return" /\ ack_local'.at = "return")
        => LET goal == HandlerGoal(ack_local')
           IN  /\ base' = goal.base
               /\ sent_packets' = goal.sent_packets
               /\ acked_packets' = goal.acked_packets
               /\ congestion' = goal.congestion

HandlerAgrees == [][HandlerAgreesStep]_vars

\* C21: for a packet p with header fields within their widths,
\* Packet.from_bytes(p.to_bytes()) has the seq_no, ack_no, flags, window,
\* payload and checksum of p and passes verify_checksum(); a datagram shorter
\* than the 13-byte header decodes to no packet
C21_RoundTrip ==
    /\ codec_pc = "parsed" =>
          /\ Len(decoded) = 1
          /\ decoded[1].seq_no = packet.seq_no
          /\ decoded[1].ack_no = packet.ack_no
          /\ decoded[1].flags = packet.flags
          /\ decoded[1].window = packet.window
          /\ decoded[1].data = packet.data
          /\ decoded[1].checksum = packet.checksum
          /\ verify_checksum_bytes(decoded[1])
    /\ (codec_pc = "parsed_truncated" /\ Len(datagram) < HEADER_SIZE) => decoded = <<>>

\* C21 witness: a packet with a payload, fields that fill their high bytes
\* and a constructor checksum that to_bytes replaced has made the round trip
C21_Witness ==
    /\ codec_pc = "parsed"
    /\ Len(packet.data) = MaxPayload
    /\ packet.seq_no = 2147483647
    /\ packet.window = 65535
    /\ packet.checksum # 65535
    /\ packet.checksum # 0
    /\ decoded # <<>>

\* a datagram one byte short of a header has been handed to from_bytes
C21_WitnessShort ==
    /\ codec_pc = "parsed_truncated"
    /\ Len(datagram) = HEADER_SIZE - 1

\* C37: in every mode bytes_received is the total length of the payloads
\* with sequence number below expected_seq, those buffered out of order and
\* delivered later included (every payload stored is one unit long)
C37_BytesDeliveredInOrder ==
    srv_stats.bytes_received =
        Cardinality({s \in DOMAIN received_data :
                        s < expected_seq /\ PayloadLen(received_data[s]) = 1})

\* C40: in Go-Back-N and Selective Repeat modes every sequence of
\* [base, next_seq) that has not been acknowledged has a sent-packet record,
\* also when the loss injector dropped its first transmission
C40_OutstandingHaveRecords ==
    protocol_mode \in {"go_back_n", "selective_repeat"} =>
        \A s \in base..(next_seq - 1) :
            (protocol_mode = "selective_repeat" => s \notin acked_packets)
                => s \in DOMAIN sent_packets

\* C40 witness: the loss injector dropped the first transmission of
\* sequence 0 (counted as sent, never put in flight), no ACK has arrived and
\* the record of 0 is there
C40_Witness ==
    /\ protocol_mode \in {"go_back_n", "selective_repeat"}
    /\ congestion.enabled
    /\ stats.packets_sent = 1
    /\ stats.acks_received = 0
    /\ stats.retransmissions = 0
    /\ congestion.packets_in_flight = 0
    /\ base = 0
    /\ next_seq = 1
    /\ 0 \in DOMAIN sent_packets

\* C38: with congestion control enabled in Go-Back-N or Selective Repeat
\* mode, 0 <= packets_in_flight <= next_seq - base in every reachable state
C38_InFlightWithinWindow ==
    (congestion.enabled /\ protocol_mode \in {"go_back_n", "selective_repeat"})
        => /\ 0 <= congestion.packets_in_flight
           /\ congestion.packets_in_flight <= next_seq - base

\* C32: the receiver resets its buffer and expected_seq on the first SYN of
\* a session only: while a copy of the SYN is on its way and DATA has been
\* accepted, no step discards an accepted payload or lowers expected_seq
C32_LateSynKeepsBuffer ==
    [][((\E p \in c2s : is_syn(p) /\ ~is_ack(p)) /\ received_data # EmptyMap)
          => /\ DOMAIN received_data \subseteq DOMAIN received_data'
             /\ expected_seq' >= expected_seq]_vars

\* C35: in Selective Repeat mode every chunk below total_chunks has been
\* transmitted at least once when the sender is COMPLETED: an ACK naming a
\* sequence not yet transmitted makes the sender skip no chunk
\* (packets_sent counts the first transmission of each sequence)
C35_EveryChunkTransmitted ==
    (protocol_mode = "selective_repeat" /\ state = "completed")
        => stats.packets_sent >= total_chunks

\* C33: a datagram whose checksum does not verify never changes the
\* sender's state: the step in which the client takes a damaged ACK,
\* SYN+ACK or FIN+ACK off the wire leaves base, the acked set, the
\* sent-packet records, the congestion controller and the connection state
\* as they were
C33_DamagedReplyDropped ==
    [][\A p \in s2c : (Damaged(p) /\ p \notin s2c')
          => UNCHANGED <<base, acked_packets, sent_packets, congestion, state>>]_vars

\* C36: whenever connect() returns False the client's state is ERROR, also
\* when the first datagram received after the SYN is not a SYN+ACK
C36_ConnectFailsInError ==
    [][(pc = "syn_wait" /\ pc' = "failed") => state' = "error"]_vars


\* C34: in Selective Repeat mode the receiver sends the ACK for sequence n
\* (ack_no = n + 1) only if payload n is in its store at that moment, so an
\* early packet that found the store full is not acknowledged
SelectiveAcksStored ==
    \A q \in s2c' \ s2c :
        (q.flags = FLAG_ACK /\ protocol_mode = "selective_repeat")
            => (q.ack_no - 1) \in DOMAIN received_data'

C34_AckOnlyIfStored == [][SelectiveAcksStored]_vars


\* C31: base, next_seq, acked_packets and sent_packets are written only by
\* the flow that holds send_lock: while _handle_ack is inside its
\* with-statement no other flow changes them, the reset at the start of
\* send_data included
WriteUnderLock == (~LockFree /\ window' # window) => ack_local' # ack_local

C31_WindowWritesLocked == [][WriteUnderLock]_vars


\* C39: GBNSender counts a timeout and retransmits only while a packet is
\* outstanding (base < next_seq), and timer_start is set exactly when a
\* packet is outstanding, however _check_timeout / _handle_timeout and the
\* ACK thread's _handle_ack interleave
GBNOutstanding == gbn.base < gbn.next_seq

TimerExact == (gbn.timer_start # "None") <=> GBNOutstanding

TimeoutOnlyOutstanding ==
    gbn'.stats.timeouts > gbn.stats.timeouts => GBNOutstanding

C39_TimerMatchesOutstanding == []TimerExact /\ [][TimeoutOnlyOutstanding]_vars

====
